---- MODULE Spec2Model ----
(***************************************************************************)
(* Model of the ESP32 sensor node's firmware-update controller             *)
(* (ota_manager): the cloud attribute push handler, the single-slot        *)
(* deferred-retry mechanism (timer + ota_retry_task), the streamed         *)
(* download / verify / apply path and the URL-based esp_https_ota path.    *)
(*                                                                         *)
(* Two preemptible FreeRTOS tasks run the update code: the task that       *)
(* delivers cloud attribute pushes (MqttTask) and ota_retry_task           *)
(* (RetryTask).  Nothing in the code serialises them.  An attempt is cut   *)
(* into the steps at which its effects become visible to the other task    *)
(* and to the cloud: the admission of a push, the preflight with the entry *)
(* into the download, the download up to the boot-slot switch, and the     *)
(* write of the NVS record with the restart.                               *)
(***************************************************************************)
EXTENDS Integers, Sequences, FiniteSets, TLC

(* ------------------------------------------------------------------ *)
(* Bounds and program constants                                       *)
(* ------------------------------------------------------------------ *)

\* Largest number of non-empty chunks one download is followed through;
\* total_read saturates there (only total_read = 0 is ever tested).
MaxChunks == 1

\* schedule_ota_retry(60): the backoff, in seconds, after a failed preflight.
RetryDelay == 60

\* schedule_ota_retry(30): used when notify_https_ready cannot create the task.
HttpsReadyDelay == 30

MqttTask == "mqtt"

RetryTask == "retry"

Tasks == {MqttTask, RetryTask}

\* A NULL char pointer.
Null == "NULL"

(* ------------------------------------------------------------------ *)
(* cJSON values of the attribute push                                 *)
(* ------------------------------------------------------------------ *)

JStr(s) == [k |-> "str", s |-> s, n |-> 0]

JNum(n) == [k |-> "num", s |-> "", n |-> n]

\* true / false / null / an object / an array: present, neither string nor number
JOther == [k |-> "other", s |-> "", n |-> 0]

JAbsent == [k |-> "absent", s |-> "", n |-> 0]

cJSON_HasObjectItem(x) == x.k # "absent"

cJSON_IsString(x) == x.k = "str"

cJSON_IsNumber(x) == x.k = "num"

\* snprintf(version_buf, ..., "%.15g", valuedouble) for the small integers used
FormatG(n) == <<"0", "1", "2", "3", "4", "5", "6", "7", "8", "9">>[n + 1]

\* tolower() on one character of a hex string
tolower(c) ==
    CASE c = "A" -> "a"
      [] c = "B" -> "b"
      [] OTHER -> c

\* snprintf("%02x") rendering of a digest value: lower-case hex
sha_hex(d) ==
    CASE d = 10 -> "a"
      [] d = 11 -> "b"
      [] OTHER -> "0"

\* strcasecmp(x, y) == 0 on hex strings of one digit
strcasecmp_eq(x, y) == tolower(x) = tolower(y)

\* Digest values a downloaded payload can have
DigestVals == {10, 11}

\* The SHA256 hex digest announced with each firmware version
ChecksumOf(v) == IF v = "1" THEN "B" ELSE "A"

BasePush ==
    [fw_title |-> JStr("fwA"), fw_version |-> JStr("2"), fw_size |-> JNum(1),
     fw_checksum |-> JStr(ChecksumOf("2")), fw_checksum_algorithm |-> JStr("SHA256"),
     fw_url |-> JAbsent]

\* Pushes with every required key present and well typed, with and without
\* fw_url; fw_version as a string or as a number
CompletePushes ==
    {[BasePush EXCEPT !.fw_version = v, !.fw_url = u,
                      !.fw_checksum = JStr(ChecksumOf(IF v.k = "num" THEN FormatG(v.n) ELSE v.s))] :
        v \in {JStr("1"), JStr("2"), JNum(1)}, u \in {JAbsent, JStr("u")}}

\* Pushes in which one key is missing or of an unexpected JSON type, or which
\* names an algorithm other than the one strcmp accepts
DeviantPushes ==
    {[b EXCEPT ![f] = JAbsent] :
        b \in {BasePush, [BasePush EXCEPT !.fw_url = JStr("u")]},
        f \in {"fw_title", "fw_version", "fw_size", "fw_checksum",
               "fw_checksum_algorithm"}}
    \cup {[b EXCEPT ![f] = JOther] :
        b \in {BasePush, [BasePush EXCEPT !.fw_url = JStr("u")]},
        f \in {"fw_title", "fw_version", "fw_size", "fw_url"}}
    \cup {[BasePush EXCEPT !.fw_checksum_algorithm = JStr("sha256")]}

Pushes == CompletePushes \cup DeviantPushes

(* ------------------------------------------------------------------ *)
(* State                                                              *)
(* ------------------------------------------------------------------ *)

VARIABLES
    power,      \* "on", "restart" (esp_restart called), "panic" (CPU exception)
                \* or "boot" (up again, MQTT session not yet established)
    nvs,        \* NVS namespace "ota": [version, title, confirmed]
    bootSlot,   \* "prior", or the version whose download the boot pointer was switched to
    s_pending,  \* pending_ota_t: [present, title, version, checksum, algo]
    s_retry_timer, \* [created, active, period]
    s_ota_task, \* [created, notified]
    pc,         \* per task: where it is in the update code
    hreq,       \* the push handler's local request (title, version, checksum, algo)
    url,        \* per task: the version snprintf'ed into the download URL
    ckptr,      \* per task: "null", or "set" when expected_checksum is a non-NULL pointer
    md,         \* per task: md_info != NULL (the running digest is active)
    total,      \* per task: total_read, saturating at MaxChunks
    digest,     \* per task: digest value of the payload that was read
    switched,   \* per task: its boot-slot switch succeeded
    nerr,       \* handler, URL mode: nvs_open(READWRITE) returned ESP_OK
    log,        \* per task: telemetry published so far by its attempt
    last,       \* what the step just taken decided about a request, if anything
    applied,    \* versions whose apply ran to esp_restart (history)
    preflight_url \* ota_retry_task: the title and version its preflight put in its URL

otaVars ==
    <<power, nvs, bootSlot, s_pending, s_retry_timer, s_ota_task, pc, hreq, url,
      ckptr, md, total, digest, switched, nerr, log, last, applied, preflight_url>>

NoReq == [title |-> "", version |-> "", checksum |-> "", algo |-> ""]

NoPending == [present |-> FALSE, title |-> "", version |-> "", checksum |-> "", algo |-> ""]

Ev(state, err, ver) == [fw_state |-> state, fw_error |-> err, ver |-> ver]

\* What the step just taken decided about a request:
\*   res     "admitted" / "already" / "dropped" / "ignored" (a required key
\*           is not there) for a push, "deferred" for a
\*           failed preflight, else the reason the update code returned
\*   version the request's version
\*   nvs_ok  for a push: the persisted version could be read
\*   log     the telemetry the attempt had published when it returned
Obs(t, r, v, ok, evs) ==
    [task |-> t, res |-> r, version |-> v, nvs_ok |-> ok, log |-> evs]

\* The step just taken decided nothing.
NoLast == Obs("", "none", "", FALSE, <<>>)

\* No preflight of ota_retry_task is under way.
NoUrl == [title |-> "", version |-> ""]

\* State after power-on: RAM statics zeroed, no timer, no retry task.
VolatileInit ==
    /\ power = "on"
    /\ s_pending = NoPending
    /\ s_retry_timer = [created |-> FALSE, active |-> FALSE, period |-> 0]
    /\ s_ota_task = [created |-> FALSE, notified |-> FALSE]
    /\ pc = [t \in Tasks |-> "idle"]
    /\ hreq = NoReq
    /\ url = [t \in Tasks |-> ""]
    /\ ckptr = [t \in Tasks |-> "null"]
    /\ md = [t \in Tasks |-> FALSE]
    /\ total = [t \in Tasks |-> 0]
    /\ digest = [t \in Tasks |-> 0]
    /\ switched = [t \in Tasks |-> FALSE]
    /\ nerr = FALSE
    /\ log = [t \in Tasks |-> <<>>]
    /\ last = NoLast
    /\ preflight_url = NoUrl

OtaInit ==
    /\ VolatileInit
    /\ nvs = [version |-> "", title |-> "", confirmed |-> -1]
    /\ bootSlot = "prior"
    /\ applied = {}

(* ------------------------------------------------------------------ *)
(* Helpers shared by the steps                                        *)
(* ------------------------------------------------------------------ *)

\* The arguments of ota_manager_download_and_apply_by_title.  The handler
\* passes its own strings; ota_retry_task passes pointers into s_pending, so
\* what it reads is whatever s_pending holds at the time of the read.
ArgTitle(t) == IF t = RetryTask THEN s_pending.title ELSE hreq.title

ArgVersion(t) == IF t = RetryTask THEN s_pending.version ELSE hreq.version

\* s_pending.checksum[0] ? s_pending.checksum : NULL  (and the handler's checksum)
CallChecksum(t) ==
    IF t = RetryTask
    THEN (IF s_pending.checksum = "" THEN Null ELSE s_pending.checksum)
    ELSE hreq.checksum

CallAlgo(t) ==
    IF t = RetryTask
    THEN (IF s_pending.algo = "" THEN Null ELSE s_pending.algo)
    ELSE hreq.algo

\* *expected_checksum at the time of the comparison
ArgChecksum(t) ==
    IF ckptr[t] = "null" THEN Null
    ELSE IF t = RetryTask THEN s_pending.checksum ELSE hreq.checksum

\* The algorithm name compared without regard to case
AlgoAnyCase(ck, algo) == ck # Null /\ algo # Null /\ algo \in {"SHA256", "sha256"}

\* strcmp(checksum_algo, "SHA256") == 0 with non-NULL checksum and algorithm
AlgoRecognized(ck, algo) == ck # Null /\ algo # Null /\ algo = "SHA256"

\* A gate that matches nothing: the fault the no-op property must exclude
NeverSame(last_version, version) == FALSE

\* Version gate: the persisted version is non-empty and equals the request's
SameVersion(last_version, version) == last_version # "" /\ last_version = version

\* schedule_ota_retry(seconds): the timer after the call
schedule_ota_retry(pend, tm, seconds, createOk) ==
    IF ~pend.present THEN tm
    ELSE IF ~tm.created /\ ~createOk THEN tm
    ELSE [created |-> TRUE, active |-> TRUE, period |-> seconds]

\* if (s_retry_timer) xTimerStop(s_retry_timer, 0)
xTimerStop(tm) == IF tm.created THEN [tm EXCEPT !.active = FALSE] ELSE tm

\* The function-local state of one task, as it is outside the update code
ClearLocals(t) ==
    /\ url' = [url EXCEPT ![t] = ""]
    /\ ckptr' = [ckptr EXCEPT ![t] = "null"]
    /\ md' = [md EXCEPT ![t] = FALSE]
    /\ total' = [total EXCEPT ![t] = 0]
    /\ digest' = [digest EXCEPT ![t] = 0]
    /\ log' = [log EXCEPT ![t] = <<>>]

\* The update code returns to its caller without a restart, having published
\* evs; r records why.  The handler then frees the JSON and returns.
\* ota_retry_task, when ota_manager_download_and_apply_by_title returned,
\* clears the pending slot and stops the timer, then waits again; the strings
\* left in the slot are not read again (every reader tests `present` first),
\* so the cleared slot is shown empty.
Return(t, r, evs) ==
    /\ pc' = [pc EXCEPT ![t] = "idle"]
    /\ last' = Obs(t, r, ArgVersion(t), FALSE, log[t] \o evs)
    /\ ClearLocals(t)
    /\ IF t = RetryTask
       THEN /\ s_pending' = NoPending
            /\ s_retry_timer' = xTimerStop(s_retry_timer)
            /\ UNCHANGED <<hreq, nerr>>
       ELSE /\ hreq' = NoReq
            /\ nerr' = FALSE
            /\ UNCHANGED <<s_pending, s_retry_timer>>
    /\ UNCHANGED <<power, nvs, bootSlot, s_ota_task, switched, applied>>

\* The attempt goes on to its next step, publishing evs.
Goto(t, next, evs) ==
    /\ pc' = [pc EXCEPT ![t] = next]
    /\ log' = [log EXCEPT ![t] = log[t] \o evs]
    /\ last' = NoLast

\* A request is in flight from the DOWNLOADING telemetry (or the call of
\* esp_https_ota) until the attempt returns or restarts the device.
InFlightPcs == {"download", "persist", "direct", "direct_commit"}

Failed(tag) == Ev("FAILED", tag, "")

\* ota_manager_download_and_apply_by_title from its entry to the DOWNLOADING
\* telemetry: token and HTTP client, the update partition, the digest set-up.
\*   "init_fail"    no access token, or esp_http_client_init failed
\*   "no_partition" esp_ota_get_next_update_partition returned NULL
\* Heap allocations are taken to succeed, mbedtls_md_setup among them.
EnterDownload(t, outcome) ==
    IF outcome = "init_fail" THEN Return(t, "init_failed", <<>>)
    ELSE IF outcome = "no_partition" THEN Return(t, "no_partition", <<>>)
    ELSE
        /\ url' = [url EXCEPT ![t] = ArgVersion(t)]
        /\ ckptr' = [ckptr EXCEPT ![t] =
                        IF CallChecksum(t) = Null THEN "null" ELSE "set"]
        /\ md' = [md EXCEPT ![t] = AlgoRecognized(CallChecksum(t), CallAlgo(t))]
        /\ Goto(t, "download", <<Ev("DOWNLOADING", "", "")>>)
        /\ UNCHANGED <<power, nvs, bootSlot, s_pending, s_retry_timer, s_ota_task,
                       hreq, total, digest, switched, nerr, applied>>

(* ------------------------------------------------------------------ *)
(* ota_manager_handle_attribute_update                                *)
(* ------------------------------------------------------------------ *)

\* A presence test that leaves fw_size out
RequiredButSize(j) ==
    /\ cJSON_HasObjectItem(j.fw_title)
    /\ cJSON_HasObjectItem(j.fw_version)
    /\ cJSON_HasObjectItem(j.fw_checksum)
    /\ cJSON_HasObjectItem(j.fw_checksum_algorithm)

AllRequiredPresent(j) ==
    /\ cJSON_HasObjectItem(j.fw_title)
    /\ cJSON_HasObjectItem(j.fw_version)
    /\ cJSON_HasObjectItem(j.fw_size)
    /\ cJSON_HasObjectItem(j.fw_checksum)
    /\ cJSON_HasObjectItem(j.fw_checksum_algorithm)

\* ota_manager_apply_fota_from_attributes: the type checks of the URL mode
FotaFieldsOk(j) ==
    /\ cJSON_IsString(j.fw_title)
    /\ cJSON_IsString(j.fw_version)
    /\ cJSON_IsNumber(j.fw_size)
    /\ cJSON_IsString(j.fw_checksum)
    /\ cJSON_IsString(j.fw_checksum_algorithm)
    /\ cJSON_IsString(j.fw_url)

\* The version string the title/version mode works with (NULL when fw_version
\* is neither a string nor a number)
TitleModeVersion(j) ==
    IF cJSON_IsString(j.fw_version) THEN j.fw_version.s
    ELSE IF cJSON_IsNumber(j.fw_version) THEN FormatG(j.fw_version.n)
    ELSE Null

StrOrNull(x) == IF cJSON_IsString(x) THEN x.s ELSE Null

\* The handler returns without starting anything.
HandlerNoop(r, v, nvsOpen) ==
    /\ last' = Obs(MqttTask, r, v, nvsOpen, <<>>)
    /\ UNCHANGED <<power, nvs, bootSlot, s_pending, s_retry_timer, s_ota_task, pc,
                   hreq, url, ckptr, md, total, digest, switched, nerr, log, applied>>

\* The handler admits a request and goes on to step `next`.
HandlerStart(next, req, nvsOpen, readOk) ==
    /\ pc' = [pc EXCEPT ![MqttTask] = next]
    /\ hreq' = req
    /\ nerr' = nvsOpen
    /\ last' = Obs(MqttTask, "admitted", req.version, readOk, <<>>)
    /\ UNCHANGED <<power, nvs, bootSlot, s_pending, s_retry_timer, s_ota_task,
                   url, ckptr, md, total, digest, switched, log, applied>>

\* The version gate of the URL mode: last_version stays "" when nvs_open
\* fails or the key is not there.
UrlGate(j, nvsOpen) ==
    SameVersion(IF nvsOpen THEN nvs.version ELSE "", j.fw_version.s)

\* A title/version mode without its gate: the fault the re-apply property
\* must exclude
NoTitleGate(j, nvsOpen) == FALSE

\* The version gate of the title/version mode: only when fw_version gave a
\* string and nvs_open / nvs_get_str both succeeded.
TitleGate(j, nvsOpen) ==
    /\ TitleModeVersion(j) # Null
    /\ nvsOpen
    /\ SameVersion(nvs.version, TitleModeVersion(j))

\* URL mode (fw_url present): ota_manager_apply_fota_from_attributes up to the
\* call of esp_https_ota.  nvsOpen: nvs_open("ota", NVS_READWRITE) succeeded.
PushUrlMode(j, nvsOpen) ==
    IF ~FotaFieldsOk(j) THEN HandlerNoop("dropped", "", FALSE)
    ELSE IF UrlGate(j, nvsOpen) THEN HandlerNoop("already", j.fw_version.s, nvsOpen)
    ELSE HandlerStart("direct",
                      [title |-> j.fw_title.s, version |-> j.fw_version.s,
                       checksum |-> j.fw_checksum.s,
                       algo |-> j.fw_checksum_algorithm.s],
                      nvsOpen, nvsOpen)

\* Title/version mode (no fw_url) up to the preflight.  nvsOpen: nvs_open
\* (NVS_READONLY) and nvs_get_str both succeeded.
PushTitleMode(j, nvsOpen) ==
    IF ~cJSON_IsString(j.fw_title) THEN HandlerNoop("dropped", "", FALSE)
    ELSE IF TitleGate(j, nvsOpen)
    THEN HandlerNoop("already", TitleModeVersion(j), nvsOpen)
    ELSE HandlerStart("preflight",
                      [title |-> j.fw_title.s, version |-> TitleModeVersion(j),
                       checksum |-> StrOrNull(j.fw_checksum),
                       algo |-> StrOrNull(j.fw_checksum_algorithm)],
                      FALSE, nvsOpen /\ TitleModeVersion(j) # Null)

\* A cloud attribute push arrives while the handler's task is free.
Push(j, nvsOpen) ==
    /\ power = "on"
    /\ pc[MqttTask] = "idle"
    /\ IF ~AllRequiredPresent(j) THEN HandlerNoop("ignored", "", FALSE)
       ELSE IF cJSON_HasObjectItem(j.fw_url) THEN PushUrlMode(j, nvsOpen)
       ELSE PushTitleMode(j, nvsOpen)

\* The request as the handler stores it in the pending slot
PendingOf(req) ==
    [present |-> TRUE, title |-> req.title, version |-> req.version,
     checksum |-> IF req.checksum = Null THEN "" ELSE req.checksum,
     algo |-> IF req.algo = Null THEN "" ELSE req.algo]

\* The handler's preflight returns ("fail"), or succeeds and the download is
\* entered with the given outcome.  With a NULL version the preflight returns
\* false at once and strncpy(s_pending.version, NULL, ...) loads from address
\* 0, which the ESP32 answers with a LoadProhibited exception: a panic.
HandlerPreflight(outcome, createOk) ==
    /\ power = "on"
    /\ pc[MqttTask] = "preflight"
    /\ IF hreq.version = Null
       THEN /\ power' = "panic"
            /\ last' = NoLast
            /\ UNCHANGED <<nvs, bootSlot, s_pending, s_retry_timer, s_ota_task, pc,
                           hreq, url, ckptr, md, total, digest, switched, nerr, log,
                           applied>>
       ELSE IF outcome # "fail"
       THEN EnterDownload(MqttTask, outcome)
       ELSE /\ s_pending' = PendingOf(hreq)
            /\ s_retry_timer' =
                  schedule_ota_retry(s_pending', s_retry_timer, RetryDelay, createOk)
            /\ pc' = [pc EXCEPT ![MqttTask] = "idle"]
            /\ last' = Obs(MqttTask, "deferred", hreq.version, FALSE, <<>>)
            /\ hreq' = NoReq
            /\ UNCHANGED <<power, nvs, bootSlot, s_ota_task, url, ckptr, md, total,
                           digest, switched, nerr, log, applied>>

(* ------------------------------------------------------------------ *)
(* Retry timer and ota_retry_task                                     *)
(* ------------------------------------------------------------------ *)

\* ota_retry_timer_cb: the one-shot timer expires.
TimerFire(createOk) ==
    /\ power = "on"
    /\ s_retry_timer.active
    /\ s_retry_timer' = [s_retry_timer EXCEPT !.active = FALSE]
    /\ s_ota_task' =
          IF s_ota_task.created THEN [s_ota_task EXCEPT !.notified = TRUE]
          ELSE IF createOk THEN [created |-> TRUE, notified |-> TRUE]
          ELSE s_ota_task
    /\ last' = NoLast
    /\ UNCHANGED <<power, nvs, bootSlot, s_pending, pc, hreq, url, ckptr, md, total,
                   digest, switched, nerr, log, applied>>

\* ota_manager_notify_https_ready
NotifyHttpsReady(createOk) ==
    /\ power = "on"
    /\ s_pending.present
    /\ IF ~s_ota_task.created /\ ~createOk
       THEN /\ s_retry_timer' =
                  schedule_ota_retry(s_pending, s_retry_timer, HttpsReadyDelay, createOk)
            /\ UNCHANGED s_ota_task
       ELSE /\ s_ota_task' = [created |-> TRUE, notified |-> TRUE]
            /\ UNCHANGED s_retry_timer
    /\ last' = NoLast
    /\ UNCHANGED <<power, nvs, bootSlot, s_pending, pc, hreq, url, ckptr, md, total,
                   digest, switched, nerr, log, applied>>

\* ota_retry_task: ulTaskNotifyTake returns; nothing to do unless a request
\* is pending.
RetryWake ==
    /\ power = "on"
    /\ s_ota_task.created
    /\ s_ota_task.notified
    /\ pc[RetryTask] = "idle"
    /\ s_ota_task' = [s_ota_task EXCEPT !.notified = FALSE]
    /\ pc' = [pc EXCEPT ![RetryTask] =
                  IF s_pending.present THEN "preflight" ELSE "idle"]
    /\ last' = NoLast
    /\ UNCHANGED <<power, nvs, bootSlot, s_pending, s_retry_timer, hreq, url, ckptr,
                   md, total, digest, switched, nerr, log, applied>>

\* ota_retry_task: its preflight of the pending request returns ("fail"), or
\* succeeds and the download is entered with the given outcome.
RetryPreflight(outcome, createOk) ==
    /\ power = "on"
    /\ pc[RetryTask] = "preflight"
    /\ IF outcome # "fail"
       THEN EnterDownload(RetryTask, outcome)
       ELSE /\ s_retry_timer' =
                  schedule_ota_retry(s_pending, s_retry_timer, RetryDelay, createOk)
            /\ pc' = [pc EXCEPT ![RetryTask] = "idle"]
            /\ last' = Obs(RetryTask, "deferred", s_pending.version, FALSE, <<>>)
            /\ UNCHANGED <<power, nvs, bootSlot, s_pending, s_ota_task, hreq, url,
                           ckptr, md, total, digest, switched, nerr, log, applied>>

(* ------------------------------------------------------------------ *)
(* ota_manager_download_and_apply_by_title                            *)
(* ------------------------------------------------------------------ *)

\* The checksum comparison: md active, expected_checksum non-NULL and
\* strcasecmp(expected_checksum, sha_hex) != 0
ChecksumMismatch(t, d) ==
    /\ md[t]
    /\ ArgChecksum(t) # Null
    /\ ~strcasecmp_eq(ArgChecksum(t), sha_hex(d))

\* A read loop whose result is never taken as empty: the fault the
\* empty-download property must exclude
NeverEmpty(n) == FALSE

\* total_read == 0 after the read loop
EmptyDownload(n) == n = 0

\* The telemetry published once the body was read and passed the tests
ReadEvents(t) ==
    <<Ev("DOWNLOADED", "", "")>> \o
    (IF md[t] THEN <<Ev("VERIFIED", "", "")>> ELSE <<>>)

\* esp_ota_end, then esp_ota_set_boot_partition, after a download of n
\* chunks with digest d passed the tests
\*   "end_fail"     esp_ota_end failed
\*   "setboot_fail" esp_ota_set_boot_partition failed
Apply(t, outcome, n, d) ==
    IF outcome = "end_fail" THEN
        Return(t, "end_failed", ReadEvents(t) \o <<Failed("ota_end_failed")>>)
    ELSE IF outcome = "setboot_fail" THEN
        Return(t, "setboot_failed", ReadEvents(t) \o <<Failed("set_boot_failed")>>)
    ELSE
        /\ Goto(t, "persist", ReadEvents(t))
        /\ bootSlot' = url[t]
        /\ switched' = [switched EXCEPT ![t] = TRUE]
        /\ total' = [total EXCEPT ![t] = n]
        /\ digest' = [digest EXCEPT ![t] = d]
        /\ UNCHANGED <<power, nvs, s_pending, s_retry_timer, s_ota_task, hreq,
                       url, ckptr, md, nerr, applied>>

\* The body has been read to its end (read_len == 0) after n chunks, with
\* digest d: the empty-download test, then the verification, then the apply.
AfterRead(t, outcome, n, d) ==
    IF EmptyDownload(n) THEN
        Return(t, "empty", <<Failed("empty_download")>>)
    ELSE IF ChecksumMismatch(t, d) THEN
        Return(t, "mismatch",
               <<Ev("DOWNLOADED", "", ""), Failed("checksum_mismatch")>>)
    ELSE
        Apply(t, outcome, n, d)

\* ota_manager_download_and_apply_by_title from esp_http_client_open to the
\* boot-slot switch: the read/write loop, the empty-download test, the
\* verification, esp_ota_end and esp_ota_set_boot_partition.  n chunks were
\* read and written before the outcome:
\*   "open_fail"  esp_http_client_open failed
\*   "begin_fail" esp_ota_begin failed
\*   "write_fail" esp_ota_write failed
\*   "read_err"   esp_http_client_read returned < 0
\*   otherwise    esp_http_client_read returned 0 (end of body)
\* On the failing exits cleanup_ota2 calls esp_ota_end only to release the
\* handle; the boot pointer is written by esp_ota_set_boot_partition alone.
Download(t, outcome, n, d) ==
    /\ power = "on"
    /\ pc[t] = "download"
    /\ IF outcome = "open_fail" THEN Return(t, "open_failed", <<>>)
       ELSE IF outcome = "begin_fail" THEN Return(t, "begin_failed", <<>>)
       ELSE IF outcome = "write_fail" THEN Return(t, "write_failed", <<>>)
       ELSE IF outcome = "read_err" THEN Return(t, "read_failed", <<>>)
       ELSE AfterRead(t, outcome, n, d)

\* A record written as already confirmed
RecordConfirmed(t) ==
    [version |-> ArgVersion(t), title |-> ArgTitle(t), confirmed |-> 1]

\* The NVS record written after the switch
PersistedRecord(t) ==
    [version |-> ArgVersion(t), title |-> ArgTitle(t), confirmed |-> 0]

\* After the switch: nvs_open / nvs_set_str version, title / nvs_set_i32
\* confirmed = 0 / commit (when nvs_open succeeds); the UPDATED telemetry;
\* esp_restart.
Commit(t, nvsOpen) ==
    /\ power = "on"
    /\ pc[t] = "persist"
    /\ nvs' = IF nvsOpen THEN PersistedRecord(t) ELSE nvs
    /\ log' = [log EXCEPT ![t] = log[t] \o <<Ev("UPDATED", "", ArgVersion(t))>>]
    /\ last' = NoLast
    /\ power' = "restart"
    /\ applied' = applied \cup {ArgVersion(t)}
    /\ UNCHANGED <<bootSlot, s_pending, s_retry_timer, s_ota_task, pc, hreq, url,
                   ckptr, md, total, digest, switched, nerr>>

(* ------------------------------------------------------------------ *)
(* ota_manager_apply_fota_from_attributes (URL mode)                  *)
(* ------------------------------------------------------------------ *)

\* esp_https_ota(&ota_cfg) returns.  On ESP_OK it has downloaded the payload
\* (digest d) and switched the boot partition itself.
DirectOta(ok, d) ==
    /\ power = "on"
    /\ pc[MqttTask] = "direct"
    /\ IF ok THEN
            /\ Goto(MqttTask, "direct_commit", <<>>)
            /\ bootSlot' = hreq.version
            /\ switched' = [switched EXCEPT ![MqttTask] = TRUE]
            /\ digest' = [digest EXCEPT ![MqttTask] = d]
            /\ UNCHANGED <<power, nvs, s_pending, s_retry_timer, s_ota_task, hreq,
                           url, ckptr, md, total, nerr, applied>>
       ELSE Return(MqttTask, "direct_failed", <<>>)

\* ret == ESP_OK: nvs_set_str version (if the handle opened), esp_restart
DirectCommit ==
    /\ power = "on"
    /\ pc[MqttTask] = "direct_commit"
    /\ nvs' = IF nerr THEN [nvs EXCEPT !.version = hreq.version] ELSE nvs
    /\ last' = NoLast
    /\ power' = "restart"
    /\ applied' = applied \cup {hreq.version}
    /\ UNCHANGED <<bootSlot, s_pending, s_retry_timer, s_ota_task, pc, hreq, url,
                   ckptr, md, total, digest, switched, nerr, log>>

(* ------------------------------------------------------------------ *)
(* Reboot                                                             *)
(* ------------------------------------------------------------------ *)

\* The device comes up again after esp_restart or a panic: RAM is reset, NVS
\* is kept, and the image the boot pointer names becomes the running one.
Boot ==
    /\ power \in {"restart", "panic"}
    /\ power' = "boot"
    /\ s_pending' = NoPending
    /\ s_retry_timer' = [created |-> FALSE, active |-> FALSE, period |-> 0]
    /\ s_ota_task' = [created |-> FALSE, notified |-> FALSE]
    /\ pc' = [t \in Tasks |-> "idle"]
    /\ hreq' = NoReq
    /\ url' = [t \in Tasks |-> ""]
    /\ ckptr' = [t \in Tasks |-> "null"]
    /\ md' = [t \in Tasks |-> FALSE]
    /\ total' = [t \in Tasks |-> 0]
    /\ digest' = [t \in Tasks |-> 0]
    /\ switched' = [t \in Tasks |-> FALSE]
    /\ nerr' = FALSE
    /\ log' = [t \in Tasks |-> <<>>]
    /\ last' = NoLast
    /\ UNCHANGED <<nvs, bootSlot, applied>>

\* The MQTT session comes up after a boot.  The device publishes the
\* persisted identity as the client attributes current_fw_title and
\* current_fw_version; when the record is unconfirmed (confirmed = 0) it then
\* publishes the confirmation telemetry {fw_state UPDATED, current_fw_version}
\* and sets confirmed = 1.  Pushes are delivered over this session, so none
\* precedes it.
MqttConnected ==
    /\ power = "boot"
    /\ power' = "on"
    /\ nvs' = IF nvs.confirmed = 0 THEN [nvs EXCEPT !.confirmed = 1] ELSE nvs
    /\ last' = Obs("connect", "attributes", nvs.version, TRUE,
                   IF nvs.confirmed = 0
                   THEN <<Ev("UPDATED", "", nvs.version)>> ELSE <<>>)
    /\ UNCHANGED <<bootSlot, s_pending, s_retry_timer, s_ota_task, pc, hreq, url,
                   ckptr, md, total, digest, switched, nerr, log, applied>>

(* ------------------------------------------------------------------ *)
(* The update subsystem as a state machine                            *)
(* ------------------------------------------------------------------ *)

\* Outcomes of xTimerCreate / xTaskCreate: heap allocations are taken to
\* succeed.
AllocOutcomes == {TRUE}

EnterOutcomes == {"ok", "init_fail", "no_partition"}

PreflightOutcomes == {"fail"} \cup EnterOutcomes

\* Outcomes in which the body is not read to its end
TransportOutcomes == {"open_fail", "begin_fail", "write_fail", "read_err"}

DownloadOutcomes == TransportOutcomes \cup {"end_fail", "setboot_fail", "ok"}

\* The chunk counts and digests followed for an outcome (neither matters
\* when the body is not read to its end)
ChunksFor(o) == IF o \in TransportOutcomes THEN {0} ELSE 0..MaxChunks

DigestsFor(o) == IF o \in TransportOutcomes THEN {10} ELSE DigestVals

(* ------------------------------------------------------------------ *)
(* deepsleep_manager: sleep.txt, the three setters, the idle countdown *)
(* ------------------------------------------------------------------ *)

\* A string is the sequence of its characters.
Digits == <<"0", "1", "2", "3", "4", "5", "6", "7", "8", "9">>

IsDigit(c) == \E d \in DOMAIN Digits : Digits[d] = c

DigitVal(c) == (CHOOSE d \in DOMAIN Digits : Digits[d] = c) - 1

\* snprintf(tmp, sizeof(tmp), "%llu", ms)
RECURSIVE FormatLlu(_)
FormatLlu(n) ==
    IF n < 10 THEN <<Digits[n + 1]>>
    ELSE FormatLlu(n \div 10) \o <<Digits[(n % 10) + 1]>>

\* "%u" of enabled_flag ? 1U : 0U
FormatFlag(b) == IF b THEN <<"1">> ELSE <<"0">>

\* strtoull from character i on: acc is the value of the digits read
RECURSIVE ScanDigits(_, _, _)
ScanDigits(s, i, acc) ==
    IF i > Len(s) \/ ~IsDigit(s[i]) THEN [val |-> acc, used |-> i - 1]
    ELSE ScanDigits(s, i + 1, acc * 10 + DigitVal(s[i]))

\* strtoull(s, &endptr, 10) for strings without leading blanks or sign:
\* val is the value of the leading digits, used is endptr - s (0 when no
\* conversion was made).
strtoull(s) == ScanDigits(s, 1, 0)

\* A file is absent, or holds lines; nl says whether the last line ends with
\* a newline (an empty file has no line).
NoFile == [exists |-> FALSE, lines |-> <<>>, nl |-> TRUE]

File(ls, nl) == [exists |-> TRUE, lines |-> ls, nl |-> nl]

\* The number of '\n' in a file
Newlines(f) == IF f.nl THEN Len(f.lines) ELSE Len(f.lines) - 1

\* The bytes of line k (none when the file is shorter)
LineOf(f, k) == IF k <= Len(f.lines) THEN f.lines[k] ELSE <<>>

\* The lines after line k, byte for byte
LinesAfter(f, k) == SubSeq(f.lines, k + 1, Len(f.lines))

\* deepsleep_manager_set_interval_ms, the new content: the value and a
\* newline, then everything after the first newline of the existing file
SpliceFirst(f, tmp) ==
    IF f.exists /\ Newlines(f) >= 1
    THEN File(<<tmp>> \o LinesAfter(f, 1),
              IF Len(f.lines) = 1 THEN TRUE ELSE f.nl)
    ELSE File(<<tmp>>, TRUE)

\* deepsleep_manager_set_idle_timeout_ms, the new content: the first line as
\* it is (blank when there is no file), the value, then everything after the
\* second newline of the existing file
SpliceSecond(f, tmp) ==
    IF ~f.exists THEN File(<< <<>>, tmp >>, TRUE)
    ELSE IF Newlines(f) = 0 THEN File(<<LineOf(f, 1), tmp>>, TRUE)
    ELSE IF Newlines(f) >= 2
    THEN File(<<f.lines[1], tmp>> \o LinesAfter(f, 2),
              IF Len(f.lines) = 2 THEN TRUE ELSE f.nl)
    ELSE File(<<f.lines[1], tmp>>, TRUE)

\* persist_sleep_config, the content written: "%llu\n%llu\n%u\n"
ConfigContent(interval, idle, enabled) ==
    File(<<FormatLlu(interval), FormatLlu(idle), FormatFlag(enabled)>>, TRUE)

\* deepsleep_manager_init: the three fields as loaded from sleep.txt into
\* the zero-initialised statics
LoadedInterval(f) ==
    IF f.exists /\ f.lines # <<>>
    THEN LET p == strtoull(f.lines[1]) IN IF p.used > 0 THEN p.val ELSE 0
    ELSE 0

LoadedIdle(f) ==
    IF f.exists /\ Newlines(f) >= 1 /\ LineOf(f, 2) # <<>>
    THEN LET p == strtoull(LineOf(f, 2)) IN IF p.used > 0 THEN p.val ELSE 0
    ELSE 0

LoadedEnabled(f) ==
    /\ f.exists /\ Newlines(f) >= 2
    /\ LineOf(f, 3) = <<"1">>

\* The name of the idle-countdown task, as the value of its handle
IdleTask == "ds_idle_cnt"

VARIABLES
    interval_ms,         \* static uint64_t interval_ms
    idle_timeout_ms,     \* static uint64_t idle_timeout_ms
    enabled_flag,        \* static bool enabled_flag
    sleep_file,          \* sleep.txt
    idle_countdown_task, \* the task handle: Null or IdleTask
    cpc,                 \* the countdown task: "none", "delay" (vTaskDelay of
                         \* the idle timeout) or "flush" (the 50 ms delay of
                         \* maybe_sleep_after_publish, identity check passed)
    hpc,                 \* telegram_task and handle_incoming_message: "idle"
                         \* (no message in hand), "done" (about to return),
                         \* "confirm" (/deepsleep: reply sent, 200 ms delay) or
                         \* "flush" (the 50 ms delay of force_sleep, countdown
                         \* cancelled)
    lowpower,            \* "awake", or who called esp_deep_sleep_start:
                         \* "countdown" or "forced"
    slast                \* what the step just taken did (an observation)

slVars ==
    <<interval_ms, idle_timeout_ms, enabled_flag, sleep_file,
      idle_countdown_task, cpc, hpc, lowpower, slast>>

\* The task control blocks a countdown task can be created in; a handle is
\* the name of one.  Three creations are followed.
TaskHandles == <<IdleTask, "ds_idle_cnt_2", "ds_idle_cnt_3">>

Handles == {TaskHandles[i] : i \in 1..Len(TaskHandles)}

\* The countdown and its callers instruction by instruction (the steps above
\* the level of cpc, which shows a cancel or a restart as one step)
VARIABLES
    tcb,        \* per handle: "free" (never created), where the task is in
                \* idle_countdown_task_fn ("delay", "maybe", "flush", "clear",
                \* "exit"), or "deleted"
    tgtask,     \* telegram_task inside start_idle_countdown / stop_idle_countdown:
                \* [op, at, reg], reg the handle it read for its test
    vdel        \* the vTaskDelete(handle) call of the step just taken, if any

cdVars == <<tcb, tgtask, vdel>>

CallerIdle == [op |-> "none", at |-> "idle", reg |-> Null]

NoDel == [arg |-> Null, target |-> "none"]

\* No countdown task has been created and telegram_task is in no call
CdOff ==
    /\ tcb = [h \in Handles |-> "free"]
    /\ tgtask = CallerIdle
    /\ vdel = NoDel

\* The statics and the file as one value
Cur ==
    [interval |-> interval_ms, idle |-> idle_timeout_ms,
     enabled |-> enabled_flag, file |-> sleep_file,
     task |-> idle_countdown_task, cpc |-> cpc]

\* The statics and the file take the values of S
Becomes(S) ==
    /\ interval_ms' = S.interval
    /\ idle_timeout_ms' = S.idle
    /\ enabled_flag' = S.enabled
    /\ sleep_file' = S.file
    /\ idle_countdown_task' = S.task
    /\ cpc' = S.cpc

\* An observation: the text handled (Null for a step that handles none),
\* the replies sent for it so far, what happened to the countdown
\* ("kept", "started": start_idle_countdown ran, "stopped") and the caller
\* of maybe_sleep_after_publish when the step was such a call
SObs(text, replies, countdown, caller) ==
    [text |-> text, replies |-> replies, countdown |-> countdown,
     caller |-> caller]

NoSObs == SObs(Null, <<>>, "kept", Null)

\* sleep.txt as deepsleep_manager_init can find it
SleepFiles ==
    { NoFile,
      File(<<>>, TRUE),
      File(<<FormatLlu(5000)>>, FALSE),
      File(<<FormatLlu(5000), FormatLlu(200), <<"1">> >>, TRUE),
      File(<<FormatLlu(5000), FormatLlu(200), <<"1">>, <<"x">> >>, TRUE) }

\* A deepsleep_manager_init that starts the countdown itself
InitCountdownAtOnce(f) ==
    IF LoadedEnabled(f) /\ LoadedIdle(f) # 0 THEN IdleTask ELSE Null

\* deepsleep_manager_init: the countdown handle it leaves ("Do not start the
\* countdown here")
InitCountdown(f) == Null

\* main: deepsleep_manager_init has read sleep.txt.
SlInitFrom(f) ==
    /\ sleep_file = f
    /\ interval_ms = LoadedInterval(f)
    /\ idle_timeout_ms = LoadedIdle(f)
    /\ enabled_flag = LoadedEnabled(f)
    /\ idle_countdown_task = InitCountdown(f)
    /\ cpc = (IF InitCountdown(f) = Null THEN "none" ELSE "delay")
    /\ hpc = "idle"
    /\ lowpower = "awake"
    /\ slast = NoSObs

SlInit == \E f \in SleepFiles : SlInitFrom(f)

\* A device without sleep.txt
SlOff == SlInitFrom(NoFile)

\* start_idle_countdown: a running countdown is cancelled, a new task is
\* created when deep sleep is enabled and the idle timeout is not 0
start_idle_countdown(S, createOk) ==
    IF S.enabled /\ S.idle # 0 /\ createOk
    THEN [S EXCEPT !.task = IdleTask, !.cpc = "delay"]
    ELSE [S EXCEPT !.task = Null, !.cpc = "none"]

\* A stop_idle_countdown that leaves the countdown task alone
StopKeepsTask(S) == S

\* stop_idle_countdown
stop_idle_countdown(S) == [S EXCEPT !.task = Null, !.cpc = "none"]

\* deepsleep_manager_start_idle_countdown
deepsleep_manager_start_idle_countdown(S, createOk) ==
    IF ~S.enabled THEN S ELSE start_idle_countdown(S, createOk)

\* persist_sleep_config; openOk: fopen(path, "w") succeeded
persist_sleep_config(S, openOk) ==
    IF ~openOk THEN [ret |-> FALSE, st |-> S]
    ELSE [ret |-> TRUE,
          st |-> [S EXCEPT !.file = ConfigContent(S.interval, S.idle, S.enabled)]]

\* A set_interval_ms that writes line 1 and forgets the static
SetIntervalFileOnly(S, ms, openOk) ==
    IF ~openOk THEN [ret |-> FALSE, st |-> S]
    ELSE [ret |-> TRUE,
          st |-> [S EXCEPT !.file = SpliceFirst(S.file, FormatLlu(ms))]]

\* deepsleep_manager_set_interval_ms
deepsleep_manager_set_interval_ms(S, ms, openOk) ==
    IF ~openOk THEN [ret |-> FALSE, st |-> S]
    ELSE [ret |-> TRUE,
          st |-> [S EXCEPT !.file = SpliceFirst(S.file, FormatLlu(ms)),
                           !.interval = ms]]

\* deepsleep_manager_set_idle_timeout_ms; openOk2 is the outcome of the
\* fopen of persist_sleep_config, whose result is not looked at
deepsleep_manager_set_idle_timeout_ms(S, ms, openOk, openOk2, createOk) ==
    IF ~openOk THEN [ret |-> FALSE, st |-> S]
    ELSE LET S1 == [S EXCEPT !.file = SpliceSecond(S.file, FormatLlu(ms)),
                             !.idle = ms]
             S2 == persist_sleep_config(S1, openOk2).st
         IN  [ret |-> TRUE,
              st |-> IF S2.enabled THEN start_idle_countdown(S2, createOk)
                     ELSE S2]

\* deepsleep_manager_set_enabled: the flag is set before it is persisted
deepsleep_manager_set_enabled(S, enabled, openOk, createOk) ==
    LET S1 == [S EXCEPT !.enabled = enabled]
        P == persist_sleep_config(S1, openOk)
    IN  IF ~P.ret THEN [ret |-> FALSE, st |-> S1]
        ELSE [ret |-> TRUE,
              st |-> IF enabled THEN start_idle_countdown(P.st, createOk)
                     ELSE stop_idle_countdown(P.st)]

\* A maybe_sleep_after_publish without the identity check
MaySleepAnyCaller(S, caller) ==
    /\ S.interval # 0
    /\ S.enabled

\* deepsleep_manager_maybe_sleep_after_publish: whether the caller goes on to
\* esp_deep_sleep_start
MaySleep(S, caller) ==
    /\ S.interval # 0
    /\ S.enabled
    /\ S.task # Null /\ caller = S.task

\* deepsleep_manager_force_sleep: whether it returns false after cancelling
\* the countdown
ForceSleepRefused(S) == S.interval = 0 \/ ~S.enabled

(* ------------------------------------------------------------------ *)
(* telegram_manager: the command dispatcher                            *)
(* ------------------------------------------------------------------ *)

\* The closed ranges of /setdeepsleepduration and /setdeepsleepdelay
MinIntervalMs == 1000

MaxIntervalMs == 604800000

MinIdleMs == 100

MaxIdleMs == 86400000

\* s begins with the characters of p (strncasecmp(s, p, strlen(p)) == 0 for
\* lower-case text)
StartsWith(s, p) == Len(s) >= Len(p) /\ SubSeq(s, 1, Len(p)) = p

\* What follows the command word, blanks skipped: nothing, letters, numbers
\* at and next to the ends of the range, a number followed by a letter
DurationArgs ==
    { <<>>, <<"x">>,
      FormatLlu(MinIntervalMs - 1), FormatLlu(MinIntervalMs),
      FormatLlu(MaxIntervalMs), FormatLlu(MaxIntervalMs + 1),
      FormatLlu(5000) \o <<"x">> }

DelayArgs ==
    { <<>>, <<"x">>,
      FormatLlu(MinIdleMs - 1), FormatLlu(MinIdleMs),
      FormatLlu(MaxIdleMs), FormatLlu(MaxIdleMs + 1) }

ToggleArgs == { <<>>, <<"x">>, <<"o", "n">>, <<"o", "f", "f">> }

\* A text message: the command word it begins with (a word that is no
\* command of the dispatcher, or text without a leading '/') and the rest
Text(cmd, arg) == [cmd |-> cmd, arg |-> arg]

Texts ==
    {Text("/setdeepsleepduration", a) : a \in DurationArgs}
        \cup {Text("/setdeepsleepdelay", a) : a \in DelayArgs}
        \cup {Text("/toggledeepsleep", a) : a \in ToggleArgs}
        \cup {Text(c, <<>>) : c \in {"/getdeepsleepstatus", "/getid",
                                     "/deepsleep", "/start", "hello"}}

\* text[0] == '/'
IsCommand(text) == text.cmd # "hello"

\* The chats messages come from
ChatIds == {12}

\* The outcomes of the calls a command makes: the two fopen for writing and
\* xTaskCreate
IoOutcomes ==
    [open1 : BOOLEAN, open2 : BOOLEAN, create : AllocOutcomes]

\* telegram_send_message(chat_id, ...): which message, and the number it
\* carries (0 when it carries none)
Reply(chat_id, msg, val) == [chat_id |-> chat_id, msg |-> msg, val |-> val]

\* What a call of handle_incoming_message leaves: the statics and the file,
\* the replies sent, what became of the countdown and where telegram_task
\* goes on
Handled(S, replies, countdown, next) ==
    [st |-> S, replies |-> replies, countdown |-> countdown, next |-> next]

\* The reply of tg_handler, the handler main registers
tg_handler(chat_id, text) ==
    Reply(chat_id,
          IF IsCommand(text) THEN "Unknown command" ELSE "Not a valid command",
          0)

\* The argument check of /setdeepsleepduration and /setdeepsleepdelay:
\* endptr == arg || val < lo || val > hi
Rejected(arg, lo, hi) ==
    LET p == strtoull(arg)
    IN  p.used = 0 \/ p.val < lo \/ p.val > hi

\* handle_incoming_message, /setdeepsleepduration
SetDuration(S, chat_id, arg, io) ==
    IF arg = <<>>
    THEN Handled(S, <<Reply(chat_id, "Usage: /setdeepsleepduration", 0)>>,
                 "kept", "done")
    ELSE IF Rejected(arg, MinIntervalMs, MaxIntervalMs)
    THEN Handled(S, <<Reply(chat_id, "Invalid value", 0)>>, "kept", "done")
    ELSE LET val == strtoull(arg).val
             R == deepsleep_manager_set_interval_ms(S, val, io.open1)
         IN  IF R.ret
             THEN Handled(R.st,
                          <<Reply(chat_id, "deepsleep interval set to", val)>>,
                          "kept", "done")
             ELSE Handled(R.st,
                          <<Reply(chat_id, "Failed to persist deepsleep interval", 0)>>,
                          "kept", "done")

\* handle_incoming_message, /setdeepsleepdelay
SetDelay(S, chat_id, arg, io) ==
    IF arg = <<>>
    THEN Handled(S, <<Reply(chat_id, "Usage: /setdeepsleepdelay", 0)>>,
                 "kept", "done")
    ELSE IF Rejected(arg, MinIdleMs, MaxIdleMs)
    THEN Handled(S, <<Reply(chat_id, "Invalid value", 0)>>, "kept", "done")
    ELSE LET val == strtoull(arg).val
             R == deepsleep_manager_set_idle_timeout_ms(
                      S, val, io.open1, io.open2, io.create)
         IN  IF R.ret
             THEN Handled(R.st, <<Reply(chat_id, "idle timeout set to", val)>>,
                          IF R.st.enabled THEN "started" ELSE "kept", "done")
             ELSE Handled(R.st,
                          <<Reply(chat_id, "Failed to persist idle timeout", 0)>>,
                          "kept", "done")

\* handle_incoming_message, /toggledeepsleep on|off
Toggle(S, chat_id, arg, io) ==
    IF StartsWith(arg, <<"o", "f", "f">>)
    THEN LET R == deepsleep_manager_set_enabled(S, FALSE, io.open1, io.create)
         IN  IF R.ret
             THEN Handled(R.st, <<Reply(chat_id, "deepsleep disabled", 0)>>,
                          "stopped", "done")
             ELSE Handled(R.st,
                          <<Reply(chat_id, "Failed to disable deepsleep", 0)>>,
                          "kept", "done")
    ELSE IF StartsWith(arg, <<"o", "n">>)
    THEN IF S.interval = 0
         THEN Handled(S, <<Reply(chat_id, "No interval set", 0)>>,
                      "kept", "done")
         ELSE LET R == deepsleep_manager_set_enabled(S, TRUE, io.open1,
                                                      io.create)
              IN  IF R.ret
                  THEN Handled(R.st,
                               <<Reply(chat_id, "deepsleep enabled", S.interval)>>,
                               "started", "done")
                  ELSE Handled(R.st,
                               <<Reply(chat_id, "Failed to enable deepsleep", 0)>>,
                               "kept", "done")
    ELSE Handled(S, <<Reply(chat_id, "Usage: /toggledeepsleep on|off", 0)>>,
                 "kept", "done")

\* /deepsleep without the dispatcher's own look at interval and enabled flag
DeepSleepUnchecked(S, chat_id) ==
    Handled(S, <<Reply(chat_id, "Entering deep sleep for", S.interval)>>,
            "kept", "confirm")

\* handle_incoming_message, /deepsleep up to the 200 ms delay before
\* deepsleep_manager_force_sleep
DeepSleepCommand(S, chat_id) ==
    IF S.interval = 0
    THEN Handled(S, <<Reply(chat_id, "No deepsleep interval set", 0)>>,
                 "kept", "done")
    ELSE IF ~S.enabled
    THEN Handled(S, <<Reply(chat_id, "Deep-sleep is currently disabled", 0)>>,
                 "kept", "done")
    ELSE Handled(S, <<Reply(chat_id, "Entering deep sleep for", S.interval)>>,
                 "kept", "confirm")

\* handle_incoming_message(chat_id, text) for a text that is not NULL
handle_incoming_message(S, chat_id, text, io) ==
    IF ~IsCommand(text)
    THEN Handled(S, <<tg_handler(chat_id, text)>>, "kept", "done")
    ELSE CASE text.cmd = "/setdeepsleepduration" ->
                SetDuration(S, chat_id, text.arg, io)
           [] text.cmd = "/setdeepsleepdelay" ->
                SetDelay(S, chat_id, text.arg, io)
           [] text.cmd = "/toggledeepsleep" ->
                Toggle(S, chat_id, text.arg, io)
           [] text.cmd = "/getdeepsleepstatus" ->
                Handled(S, <<Reply(chat_id, "deepsleep interval", S.interval)>>,
                        "kept", "done")
           [] text.cmd = "/getid" ->
                Handled(S, <<Reply(chat_id, "id", chat_id)>>, "kept", "done")
           [] text.cmd = "/deepsleep" -> DeepSleepCommand(S, chat_id)
           [] OTHER ->
                Handled(S, <<Reply(chat_id, "Unknown command", 0)>>,
                        "kept", "done")

(* ------------------------------------------------------------------ *)
(* telegram_manager: token file, update extraction, dispatch          *)
(* ------------------------------------------------------------------ *)

\* Highest update_id the server hands out
MaxId == 2

\* Most updates in one getUpdates response
MaxBatch == 2

\* limit= of the initial sync request
SyncLimit == 1

Ids == 1..MaxId

Min(S) == CHOOSE x \in S : \A y \in S : x <= y

Max(S) == CHOOSE x \in S : \A y \in S : y <= x

\* What an update carries: a message with text ("text"), a message without
\* text such as a photo ("photo"), or no message at all such as an inline
\* query ("other").  The kind follows from the id so that every order of
\* kinds occurs among the responses.
UpdateKind(i) ==
    CASE i % 3 = 1 -> "other"
      [] i % 3 = 2 -> "text"
      [] OTHER -> "photo"

\* One element of the "result" array: text is Null when the update has no
\* "text" member, chat is 0 when it has no "chat" object.
Update(i) ==
    [update_id |-> i,
     text |-> IF UpdateKind(i) = "text" THEN "/cmd" ELSE Null,
     chat |-> IF UpdateKind(i) = "other" THEN 0 ELSE 10 + i]

\* The orders in which n different ids can be listed
Listings(n) ==
    {f \in [1..n -> Ids] : \A a, b \in 1..n : a # b => f[a] # f[b]}

\* The response bodies of getUpdates: up to MaxBatch updates, in any order
Responses ==
    UNION {{[k \in 1..n |-> Update(f[k])] : f \in Listings(n)} : n \in 0..MaxBatch}

\* The update_ids found in a response
UidsOf(resp) == {resp[k].update_id : k \in DOMAIN resp}

\* The response lists its updates oldest first
Ascending(resp) ==
    \A a, b \in DOMAIN resp : a < b => resp[a].update_id < resp[b].update_id

\* fprintf(fw, "%lld\n", id) for the small ids used
FormatLld(n) == <<"0", "1", "2", "3", "4", "5", "6", "7", "8", "9">>[n + 1]

\* sscanf(buf, "%lld", &persisted): the number read, or -1 when it fails
ScanLld(s) ==
    IF \E n \in 0..9 : FormatLld(n) = s
    THEN CHOOSE n \in 0..9 : FormatLld(n) = s
    ELSE -1

\* tele.txt as the device can find it: the token alone, token and admin
\* line, or a third line that holds a number or something else
TokenFiles ==
    {<<"token">>, <<"token", "admin">>, <<"token", "admin", "x">>}
        \cup {<<"token", "admin", FormatLld(c)>> : c \in 0..MaxId}

\* telegram_init_from_file: last_update_id as loaded from the third line
\* (0, the static initialiser, when there is none or it is no number)
telegram_init_from_file(file) ==
    IF Len(file) >= 3 /\ ScanLld(file[3]) >= 0 THEN ScanLld(file[3]) ELSE 0

\* The cursor the token file holds on its third line
PersistedCursor(file) == telegram_init_from_file(file)

\* A persist that writes the offset of the next request instead of the id
PersistNextOffset(file, id, openOk) ==
    IF ~openOk THEN file
    ELSE SubSeq(file, 1, IF Len(file) < 2 THEN Len(file) ELSE 2)
            \o <<FormatLld(id + 1)>>

\* persist_last_update_id: first and second line are read back, then the
\* file is rewritten as the lines found followed by the id.  openOk: the
\* fopen for writing succeeded.
persist_last_update_id(file, id, openOk) ==
    IF ~openOk THEN file
    ELSE SubSeq(file, 1, IF Len(file) < 2 THEN Len(file) ELSE 2)
            \o <<FormatLld(id)>>

\* extract_json_string(upd, "\"text\""): strstr searches from the update's
\* position to the end of the response body, so the text found is that of
\* the first update at or after position ui that has one.
extract_json_string(resp, ui) ==
    LET hits == {k \in ui..Len(resp) : resp[k].text # Null}
    IN  IF hits = {} THEN Null ELSE resp[Min(hits)].text

\* extract_chat_id_from_update(upd): every strstr ("message", "chat", "id")
\* runs to the end of the response body as well.
extract_chat_id_from_update(resp, ui) ==
    LET hits == {k \in ui..Len(resp) : resp[k].chat # 0}
    IN  IF hits = {} THEN 0 ELSE resp[Min(hits)].chat

\* What process_updates calls for the update at position ui
Dispatch(resp, ui) ==
    LET text == extract_json_string(resp, ui)
        chat_id == extract_chat_id_from_update(resp, ui)
    IN  [fn |-> IF text # Null THEN "handle_incoming_message" ELSE "msg_handler",
         uid |-> resp[ui].update_id,
         chat_id |-> chat_id,
         text |-> text]

\* The cursor test of process_updates, which lets the cursor's own id through
SkipsBelow(ignore_last_cursor, uid, cursor) ==
    ~ignore_last_cursor /\ uid < cursor

\* if (!ignore_last_cursor && uid <= last_update_id) continue;
Skips(ignore_last_cursor, uid, cursor) ==
    ~ignore_last_cursor /\ uid <= cursor

\* process_updates from position ui on: the calls made, in order
RECURSIVE process_updates(_, _, _, _)
process_updates(resp, ui, ignore_last_cursor, cursor) ==
    IF ui > Len(resp) THEN <<>>
    ELSE (IF Skips(ignore_last_cursor, resp[ui].update_id, cursor)
          THEN <<>> ELSE <<Dispatch(resp, ui)>>)
         \o process_updates(resp, ui + 1, ignore_last_cursor, cursor)

\* The update_ids of a sequence of calls
DispatchedIds(cs) == {cs[k].uid : k \in DOMAIN cs}

\* *pmax_processed_uid after process_updates, started at last_update_id
max_processed_uid(cs, cursor) == Max({cursor} \cup DispatchedIds(cs))

\* A sync that takes the highest id of the response whatever the cursor is
HighestOfResponse(cursor, resp) ==
    IF resp = <<>> THEN cursor ELSE Max(UidsOf(resp))

\* telegram_start, initial sync: max_uid starts at last_update_id and is
\* raised by every higher update_id of the response
SyncCursor(cursor, resp) == Max({cursor} \cup UidsOf(resp))

\* The first `limit` updates the server holds: what a request with limit=
\* gets
Limited(backlog, limit) ==
    SubSeq(backlog, 1, IF Len(backlog) < limit THEN Len(backlog) ELSE limit)

VARIABLES
    last_update_id, \* the delivery cursor in RAM
    tele_file,      \* the lines of tele.txt
    tpc,            \* "off", "start" (telegram_start not yet run), "poll"
                    \* (telegram_task about to request) or "fallback" (the
                    \* offset request came back empty)
    calls,          \* the dispatcher / handler calls of the step just taken
    cycle,          \* what the step just taken was: "sync", "failed" (http_get
                    \* failed), "empty" (offset request without result),
                    \* "direct" (first response processed), "nothing" (empty
                    \* fallback response), "found" (fallback response with the
                    \* cursor's id) or "stale" (fallback response without it)
    hi,             \* highest update_id dispatched since boot
    recovered,      \* the response the last stale-cursor recovery dispatched
    orderly,        \* every response processed so far listed its ids ascending
    waiting         \* the updates the server held at the initial sync

tgVars ==
    <<last_update_id, tele_file, tpc, calls, cycle, hi, recovered, orderly,
      waiting>>

vars == <<otaVars, tgVars, slVars, cdVars>>

\* main: telegram_init_from_file has loaded the token file, telegram_start is
\* about to run.
TgInit ==
    /\ tele_file \in TokenFiles
    /\ last_update_id = telegram_init_from_file(tele_file)
    /\ tpc = "start"
    /\ calls = <<>>
    /\ cycle = "none"
    /\ hi = 0
    /\ recovered = <<>>
    /\ orderly = TRUE
    /\ waiting = <<>>

\* No token file: main starts no Telegram client.
TgOff ==
    /\ tele_file = <<>>
    /\ last_update_id = 0
    /\ tpc = "off"
    /\ calls = <<>>
    /\ cycle = "none"
    /\ hi = 0
    /\ recovered = <<>>
    /\ orderly = TRUE
    /\ waiting = <<>>

\* telegram_start: the initial sync (getUpdates?timeout=1&limit=1), then the
\* start of the idle countdown and xTaskCreate(telegram_task).  ok: http_get succeeded; backlog: the updates
\* the server holds.
telegram_start(ok, backlog) ==
    /\ tpc = "start"
    /\ tpc' = "poll"
    /\ IF ok
       THEN /\ last_update_id' =
                  SyncCursor(last_update_id, Limited(backlog, SyncLimit))
            /\ waiting' = backlog
       ELSE UNCHANGED <<last_update_id, waiting>>
    /\ calls' = <<>>
    /\ cycle' = IF ok THEN "sync" ELSE "failed"
    /\ UNCHANGED <<tele_file, hi, recovered, orderly>>
    /\ \E createOk \in AllocOutcomes :
          LET S == deepsleep_manager_start_idle_countdown(Cur, createOk)
          IN  Becomes(S)
    /\ UNCHANGED <<hpc, lowpower, slast>>

\* A loop body that keeps ignore_last_cursor set once a stale-cursor recovery
\* has run
RunCycleStickyIgnore(resp, ignore_last_cursor, openOk) ==
    LET cs == process_updates(resp, 1,
                              ignore_last_cursor \/ recovered # <<>>,
                              last_update_id)
        mx == max_processed_uid(cs, last_update_id)
    IN  /\ calls' = cs
        /\ hi' = Max({hi} \cup DispatchedIds(cs))
        /\ orderly' = (orderly /\ Ascending(resp))
        /\ IF mx > last_update_id
           THEN /\ last_update_id' = mx
                /\ tele_file' = persist_last_update_id(tele_file, mx, openOk)
           ELSE UNCHANGED <<last_update_id, tele_file>>

\* telegram_task from process_updates to the end of the loop body: dispatch,
\* then store and persist the highest processed id if it exceeds the cursor.
RunCycle(resp, ignore_last_cursor, openOk) ==
    LET cs == process_updates(resp, 1, ignore_last_cursor, last_update_id)
        mx == max_processed_uid(cs, last_update_id)
    IN  /\ calls' = cs
        /\ hi' = Max({hi} \cup DispatchedIds(cs))
        /\ orderly' = (orderly /\ Ascending(resp))
        /\ IF mx > last_update_id
           THEN /\ last_update_id' = mx
                /\ tele_file' = persist_last_update_id(tele_file, mx, openOk)
           ELSE UNCHANGED <<last_update_id, tele_file>>

\* telegram_task, first request of a cycle: with offset = last_update_id + 1
\* when the cursor is not 0, else without offset.
GetUpdates(ok, resp, openOk) ==
    /\ tpc = "poll"
    /\ IF ~ok
       THEN /\ calls' = <<>>
            /\ cycle' = "failed"
            /\ UNCHANGED <<last_update_id, tele_file, tpc, hi, recovered,
                           orderly, waiting>>
       ELSE IF resp = <<>> /\ last_update_id # 0
       THEN /\ tpc' = "fallback"
            /\ calls' = <<>>
            /\ cycle' = "empty"
            /\ UNCHANGED <<last_update_id, tele_file, hi, recovered, orderly,
                           waiting>>
       ELSE /\ RunCycle(resp, FALSE, openOk)
            /\ cycle' = "direct"
            /\ UNCHANGED <<tpc, recovered, waiting>>

\* A test that never finds the cursor
NeverFound(resp) == FALSE

\* The persisted cursor is among the ids of the fallback response
found_last(resp) == last_update_id \in UidsOf(resp)

\* A fallback whose failed request ends telegram_task
FallbackGivesUp(ok, resp, openOk) ==
    /\ tpc = "fallback"
    /\ IF ~ok
       THEN /\ tpc' = "off"
            /\ calls' = <<>>
            /\ cycle' = "failed"
            /\ UNCHANGED <<last_update_id, tele_file, hi, recovered, orderly,
                           waiting>>
       ELSE LET ignore_last_cursor == resp # <<>> /\ ~found_last(resp)
            IN  /\ tpc' = "poll"
                /\ RunCycle(resp, ignore_last_cursor, openOk)
                /\ cycle' = IF resp = <<>> THEN "nothing"
                             ELSE IF ignore_last_cursor THEN "stale" ELSE "found"
                /\ recovered' = IF ignore_last_cursor THEN resp ELSE recovered
                /\ UNCHANGED waiting

\* telegram_task, fallback request without offset and the rest of the cycle
FallbackGetUpdates(ok, resp, openOk) ==
    /\ tpc = "fallback"
    /\ tpc' = "poll"
    /\ IF ~ok
       THEN /\ calls' = <<>>
            /\ cycle' = "failed"
            /\ UNCHANGED <<last_update_id, tele_file, hi, recovered, orderly,
                           waiting>>
       ELSE LET ignore_last_cursor == resp # <<>> /\ ~found_last(resp)
            IN  /\ RunCycle(resp, ignore_last_cursor, openOk)
                /\ cycle' = IF resp = <<>> THEN "nothing"
                             ELSE IF ignore_last_cursor THEN "stale" ELSE "found"
                /\ recovered' = IF ignore_last_cursor THEN resp ELSE recovered
                /\ UNCHANGED waiting

(* ------------------------------------------------------------------ *)
(* The command dispatcher and the sleep paths as steps                 *)
(* ------------------------------------------------------------------ *)

\* A task other than the countdown task that calls
\* deepsleep_manager_maybe_sleep_after_publish
OtherCallers == {"main"}

\* telegram_task hands a text message to handle_incoming_message; for
\* /deepsleep the step ends in the 200 ms delay that follows the reply.
HandleMessage(chat_id, text, io) ==
    /\ tpc = "poll"
    /\ hpc = "idle"
    /\ slast = NoSObs
    /\ lowpower = "awake"
    /\ LET H == handle_incoming_message(Cur, chat_id, text, io)
       IN  /\ Becomes(H.st)
           /\ hpc' = H.next
           /\ slast' = SObs(text, H.replies, H.countdown, Null)
    /\ UNCHANGED lowpower

\* /deepsleep after the delay: deepsleep_manager_force_sleep up to its 50 ms
\* delay, or its return of false and the second reply
ForceSleep ==
    /\ hpc = "confirm"
    /\ lowpower = "awake"
    /\ LET S == stop_idle_countdown(Cur)
           Cancelled == IF idle_countdown_task = Null THEN "kept" ELSE "stopped"
       IN  /\ Becomes(S)
           /\ IF ForceSleepRefused(S)
              THEN /\ hpc' = "done"
                   /\ slast' =
                        [slast EXCEPT
                           !.replies = @ \o
                              <<Reply(@[1].chat_id, "Failed to force deep sleep", 0)>>,
                           !.countdown = Cancelled]
              ELSE /\ hpc' = "flush"
                   /\ slast' = [slast EXCEPT !.countdown = Cancelled]
    /\ UNCHANGED lowpower

\* deepsleep_manager_force_sleep: esp_deep_sleep_start
ForceSleepStart ==
    /\ hpc = "flush"
    /\ lowpower = "awake"
    /\ lowpower' = "forced"
    /\ UNCHANGED <<interval_ms, idle_timeout_ms, enabled_flag, sleep_file,
                   idle_countdown_task, cpc, hpc, slast>>

\* idle_countdown_task_fn when its vTaskDelay ends: with deep sleep enabled
\* it calls maybe_sleep_after_publish, which either goes on to its 50 ms
\* delay or returns; the task then clears its handle and deletes itself.
CountdownExpire ==
    /\ cpc = "delay"
    /\ lowpower = "awake"
    /\ IF enabled_flag /\ MaySleep(Cur, IdleTask)
       THEN /\ cpc' = "flush"
            /\ UNCHANGED idle_countdown_task
       ELSE /\ cpc' = "none"
            /\ idle_countdown_task' = Null
    /\ UNCHANGED <<interval_ms, idle_timeout_ms, enabled_flag, sleep_file,
                   hpc, lowpower, slast>>

\* maybe_sleep_after_publish in the countdown task: esp_deep_sleep_start
CountdownSleep ==
    /\ cpc = "flush"
    /\ lowpower = "awake"
    /\ lowpower' = "countdown"
    /\ UNCHANGED <<interval_ms, idle_timeout_ms, enabled_flag, sleep_file,
                   idle_countdown_task, cpc, hpc, slast>>

\* deepsleep_manager_maybe_sleep_after_publish called by another task,
\* followed while telegram_task has no message in hand
maybe_sleep_after_publish(caller) ==
    /\ tpc # "start"
    /\ hpc = "idle"
    /\ slast = NoSObs
    /\ lowpower = "awake"
    /\ lowpower' = IF MaySleep(Cur, caller) THEN "adhoc" ELSE lowpower
    /\ slast' = SObs(Null, <<>>, "kept", caller)
    /\ UNCHANGED <<interval_ms, idle_timeout_ms, enabled_flag, sleep_file,
                   idle_countdown_task, cpc, hpc>>

\* handle_incoming_message, or the call of maybe_sleep_after_publish by
\* another task, returns
CallReturns ==
    /\ hpc = "done" \/ slast.caller # Null
    /\ lowpower = "awake"
    /\ hpc' = "idle"
    /\ slast' = NoSObs
    /\ UNCHANGED <<interval_ms, idle_timeout_ms, enabled_flag, sleep_file,
                   idle_countdown_task, cpc, lowpower>>

\* The timer wake-up from deep sleep: the chip restarts, app_main runs
\* deepsleep_manager_init and telegram_init_from_file again.
WakeUp ==
    /\ lowpower # "awake"
    /\ sleep_file' = sleep_file
    /\ interval_ms' = LoadedInterval(sleep_file)
    /\ idle_timeout_ms' = LoadedIdle(sleep_file)
    /\ enabled_flag' = LoadedEnabled(sleep_file)
    /\ idle_countdown_task' = InitCountdown(sleep_file)
    /\ cpc' = IF InitCountdown(sleep_file) = Null THEN "none" ELSE "delay"
    /\ hpc' = "idle"
    /\ lowpower' = "awake"
    /\ slast' = NoSObs
    /\ tele_file' = tele_file
    /\ last_update_id' = telegram_init_from_file(tele_file)
    /\ tpc' = "start"
    /\ calls' = <<>>
    /\ cycle' = "none"
    /\ hi' = 0
    /\ recovered' = <<>>
    /\ orderly' = TRUE
    /\ waiting' = <<>>

(* ------------------------------------------------------------------ *)
(* Specifications                                                     *)
(* ------------------------------------------------------------------ *)

\* ota_manager_thingsboard_preflight as ota_retry_task calls it: title and
\* version are read through the pointers into s_pending once, when the URL is
\* formatted, before the request is performed; the URL is a local of the
\* call and is gone when the call has returned.
PreflightUrl ==
    preflight_url' =
        IF pc'[RetryTask] # "preflight" THEN NoUrl
        ELSE IF pc[RetryTask] = "preflight" THEN preflight_url
        ELSE [title |-> s_pending.title, version |-> s_pending.version]

\* One step of the update subsystem; the Telegram client is left alone.
OtaNext ==
    \/ /\ \E j \in Pushes, nvsOpen \in BOOLEAN : Push(j, nvsOpen)
       /\ PreflightUrl
       /\ UNCHANGED <<tgVars, slVars, cdVars>>
    \/ /\ \E o \in PreflightOutcomes, createOk \in AllocOutcomes :
             HandlerPreflight(o, createOk)
       /\ PreflightUrl
       /\ UNCHANGED <<tgVars, slVars, cdVars>>
    \/ /\ \E createOk \in AllocOutcomes : TimerFire(createOk)
       /\ PreflightUrl
       /\ UNCHANGED <<tgVars, slVars, cdVars>>
    \/ /\ \E createOk \in AllocOutcomes : NotifyHttpsReady(createOk)
       /\ PreflightUrl
       /\ UNCHANGED <<tgVars, slVars, cdVars>>
    \/ /\ RetryWake
       /\ PreflightUrl
       /\ UNCHANGED <<tgVars, slVars, cdVars>>
    \/ /\ \E o \in PreflightOutcomes, createOk \in AllocOutcomes :
             RetryPreflight(o, createOk)
       /\ PreflightUrl
       /\ UNCHANGED <<tgVars, slVars, cdVars>>
    \/ /\ \E t \in Tasks, o \in DownloadOutcomes :
             \E n \in ChunksFor(o), d \in DigestsFor(o) : Download(t, o, n, d)
       /\ PreflightUrl
       /\ UNCHANGED <<tgVars, slVars, cdVars>>
    \/ /\ \E t \in Tasks, nvsOpen \in BOOLEAN : Commit(t, nvsOpen)
       /\ PreflightUrl
       /\ UNCHANGED <<tgVars, slVars, cdVars>>
    \/ /\ \E ok \in BOOLEAN, d \in DigestVals : DirectOta(ok, d)
       /\ PreflightUrl
       /\ UNCHANGED <<tgVars, slVars, cdVars>>
    \/ /\ DirectCommit
       /\ PreflightUrl
       /\ UNCHANGED <<tgVars, slVars, cdVars>>
    \/ /\ Boot
       /\ PreflightUrl
       /\ UNCHANGED <<tgVars, slVars, cdVars>>
    \/ /\ MqttConnected
       /\ PreflightUrl
       /\ UNCHANGED <<tgVars, slVars, cdVars>>

\* The response bodies followed for an outcome of http_get (none arrives
\* when it failed)
ResponsesFor(ok) == IF ok THEN Responses ELSE {<<>>}

\* What the server can hold when the device starts: updates wait oldest
\* first
Backlogs == {r \in Responses : Ascending(r)}

BacklogsFor(ok) == IF ok THEN Backlogs ELSE {<<>>}

\* The outcomes of fopen(tele_file_path, "w") followed (nothing is written
\* in a cycle whose request failed)
OpenOutcomesFor(ok) == IF ok THEN BOOLEAN ELSE {TRUE}

\* One step of the Telegram client; the update subsystem is left alone.
TgNext ==
    \/ /\ \E ok \in BOOLEAN : \E backlog \in BacklogsFor(ok) :
             telegram_start(ok, backlog)
       /\ UNCHANGED <<otaVars, cdVars>>
    \/ /\ \E ok \in BOOLEAN :
             \E resp \in ResponsesFor(ok), openOk \in OpenOutcomesFor(ok) :
                GetUpdates(ok, resp, openOk)
       /\ UNCHANGED <<otaVars, slVars, cdVars>>
    \/ /\ \E ok \in BOOLEAN :
             \E resp \in ResponsesFor(ok), openOk \in OpenOutcomesFor(ok) :
                FallbackGetUpdates(ok, resp, openOk)
       /\ UNCHANGED <<otaVars, slVars, cdVars>>

\* app_main on a device without a token file: the update subsystem is
\* initialised, the Telegram client is not started
OtaBoot == OtaInit /\ TgOff /\ SlOff /\ CdOff

\* app_main on a device with a token file, before any firmware push
TgBoot == TgInit /\ OtaInit /\ SlOff /\ CdOff

\* The I/O outcomes followed for a text: both outcomes of an fopen the
\* command comes to, success for one it does not come to
OpensOnce(text) ==
    \/ /\ text.cmd = "/setdeepsleepduration"
       /\ text.arg # <<>> /\ ~Rejected(text.arg, MinIntervalMs, MaxIntervalMs)
    \/ /\ text.cmd = "/setdeepsleepdelay"
       /\ text.arg # <<>> /\ ~Rejected(text.arg, MinIdleMs, MaxIdleMs)
    \/ /\ text.cmd = "/toggledeepsleep"
       /\ StartsWith(text.arg, <<"o", "n">>) \/ StartsWith(text.arg, <<"o", "f", "f">>)

IoOutcomesFor(text) ==
    LET once == OpensOnce(text)
        twice == once /\ text.cmd = "/setdeepsleepdelay"
    IN  {io \in IoOutcomes :
            /\ ~once => io.open1
            /\ ~(twice /\ io.open1) => io.open2}

\* One step of the command dispatcher or of a sleep path
SleepNext ==
    \/ /\ \E ok \in BOOLEAN : telegram_start(ok, <<>>)
       /\ UNCHANGED <<otaVars, cdVars>>
    \/ /\ \E chat_id \in ChatIds, text \in Texts :
             \E io \in IoOutcomesFor(text) : HandleMessage(chat_id, text, io)
       /\ UNCHANGED <<otaVars, tgVars, cdVars>>
    \/ /\ ForceSleep
       /\ UNCHANGED <<otaVars, tgVars, cdVars>>
    \/ /\ ForceSleepStart
       /\ UNCHANGED <<otaVars, tgVars, cdVars>>
    \/ /\ CountdownExpire
       /\ UNCHANGED <<otaVars, tgVars, cdVars>>
    \/ /\ CountdownSleep
       /\ UNCHANGED <<otaVars, tgVars, cdVars>>
    \/ /\ \E caller \in OtherCallers : maybe_sleep_after_publish(caller)
       /\ UNCHANGED <<otaVars, tgVars, cdVars>>
    \/ /\ CallReturns
       /\ UNCHANGED <<otaVars, tgVars, cdVars>>
    \/ /\ WakeUp
       /\ UNCHANGED <<otaVars, cdVars>>

\* app_main on a device that is sent chat commands: token file without a
\* persisted cursor, any sleep.txt, no firmware push
SleepBoot ==
    /\ OtaInit
    /\ TgInit /\ tele_file = <<"token", "admin">>
    /\ SlInit
    /\ CdOff

\* The update subsystem on a device without a token file
OtaSpec == OtaBoot /\ [][OtaNext]_vars

\* The Telegram client on a device that receives no firmware push
TgSpec == TgBoot /\ [][TgNext]_vars

\* The command dispatcher, the sleep configuration and the sleep paths
SleepSpec == SleepBoot /\ [][SleepNext]_vars

(* ------------------------------------------------------------------ *)
(* Properties of the update subsystem                                 *)
(* ------------------------------------------------------------------ *)

\* The step just taken was the handling of a push (by the handler's task)
PushStep == pc[MqttTask] = "idle" /\ last'.task = MqttTask
            /\ last'.res \in {"admitted", "already", "dropped", "ignored"}

\* The push just handled carried the version the record holds
PushOfPersisted == nvs.version # "" /\ last'.version = nvs.version

\* The payload with digest d is not the one the handler's request announced
\* under a recognised algorithm
HandlerMismatch(d) ==
    /\ AlgoRecognized(hreq.checksum, hreq.algo)
    /\ ~strcasecmp_eq(hreq.checksum, sha_hex(d))

\* C1: for a request of the push handler, in either delivery mode, whose
\* algorithm is recognised as SHA256: when the digest of the downloaded
\* payload differs from fw_checksum (compared without regard to case), the
\* boot slot is not activated for it.
C1_MismatchNeverActivates ==
    switched[MqttTask] => ~HandlerMismatch(digest[MqttTask])

ImageOf(t) == IF pc[t] = "direct_commit" THEN hreq.version ELSE url[t]

\* The step just taken was the end of task t's successful apply: the record
\* is written (title/version mode: and UPDATED published), then esp_restart
CommitStep(t) ==
    /\ power = "on" /\ power' = "restart"
    /\ IF pc[t] = "persist" THEN log'[t] # log[t]
       ELSE pc[t] = "direct_commit" /\ log' = log

\* The step just taken wrote the record anew (the confirmation after a boot
\* only sets its flag to 1)
RecordWritten == nvs' # nvs /\ nvs'.confirmed # 1

\* C4: the record is written, and UPDATED published, only by the step that
\* ends an attempt whose own boot-slot switch succeeded, and the version it
\* writes is that of the image this attempt switched to; no other step, so no
\* failing path, writes the record.
C4_RecordOnlyAfterOwnSwitch ==
    [][/\ RecordWritten => \E t \in Tasks : CommitStep(t)
       /\ \A t \in Tasks :
            CommitStep(t) => /\ switched[t]
                             /\ nvs' # nvs => nvs'.version = ImageOf(t)]_otaVars

\* C5: the device goes down and comes up again only as the last action of an
\* attempt whose boot-slot switch succeeded.
C5_RestartOnlyAfterApply ==
    power \in {"restart", "panic"} => \E t \in Tasks : switched[t]

\* C6: while a request admitted by the handler is in flight, the pending slot
\* does not still hold an older request for another version that waits for
\* the retry task.
C6_SupersededDiscarded ==
    ~(/\ power = "on"
      /\ pc[MqttTask] \in InFlightPcs
      /\ s_pending.present
      /\ s_pending.version # hreq.version
      /\ pc[RetryTask] = "idle")

\* C7: the push handler and the retry task never have a request in flight at
\* the same time.
C7_OneInFlight ==
    ~(pc[MqttTask] \in InFlightPcs /\ pc[RetryTask] \in InFlightPcs)

\* C8: a task starts a download (the streamed one or esp_https_ota) only in
\* the step in which its preflight succeeded.
C8_DownloadOnlyAfterPreflight ==
    [][\A t \in Tasks :
          (pc'[t] \in {"download", "direct"} /\ pc'[t] # pc[t])
              => pc[t] = "preflight"]_otaVars

HasEvent(evs, e) == \E i \in DOMAIN evs : evs[i] = e

\* Returns on which the body was not read to its end
TransportResults == {"open_failed", "begin_failed", "write_failed", "read_failed"}

TerminalFailures ==
    TransportResults \cup
    {"empty", "mismatch", "end_failed", "setboot_failed", "direct_failed"}

\* The FAILED events carrying an error tag among evs
FailedEvents(evs) ==
    {i \in DOMAIN evs : evs[i].fw_state = "FAILED" /\ evs[i].fw_error # ""}

\* C10: an attempt that ended in a terminal failure has published exactly
\* one FAILED event carrying an error tag.
C10_OneFailedEvent ==
    last.res \in TerminalFailures => Cardinality(FailedEvents(last.log)) = 1

\* The step just taken was the establishment of the MQTT session after a boot
ConnectStep == power = "boot" /\ power' = "on"

RequiredKeys ==
    {"fw_title", "fw_version", "fw_size", "fw_checksum", "fw_checksum_algorithm"}

\* The push has no member under one of the required keys
LacksRequired(j) == \E k \in RequiredKeys : j[k] = JAbsent

\* C12: a push that lacks one of fw_title, fw_version, fw_size, fw_checksum,
\* fw_checksum_algorithm is dropped: the handler starts no attempt (so no
\* request goes out), publishes no telemetry, and leaves the record, the
\* pending slot and the retry timer as they were.
C12_IncompletePushDropped ==
    [][PushStep =>
       \/ /\ last'.log = <<>>
          /\ UNCHANGED <<nvs, bootSlot, s_pending, s_retry_timer, s_ota_task,
                         pc, hreq, url, log, power>>
       \/ \A j \in Pushes, nvsOpen \in BOOLEAN :
             ~(LacksRequired(j) /\ Push(j, nvsOpen))]_otaVars

\* An incomplete push has been dropped while an older request waits in the
\* pending slot with its timer running.
C12_Witness ==
    /\ last.task = MqttTask /\ last.res = "ignored"
    /\ s_pending.present
    /\ s_retry_timer.active

\* Task t's update code is called with a checksum algorithm other than the
\* exact string SHA256 and gets as far as the digest set-up
EntersUnrecognized(t) ==
    /\ pc[t] = "preflight" /\ pc'[t] = "download"
    /\ CallAlgo(t) # "SHA256"

\* Task t's download, running without a digest, comes to its end
EndsUnverified(t) ==
    /\ power = "on" /\ power' = "on"
    /\ pc[t] = "download" /\ pc'[t] # "download"
    /\ ~md[t]

\* C13: a request whose checksum algorithm is not the exact string SHA256 is
\* downloaded without a digest; its download is never failed for a checksum
\* mismatch and publishes no VERIFIED; it fails only for a reason a verified
\* download fails for too, and otherwise switches the boot slot and goes on
\* to the persist-and-restart step.
C13_UnrecognizedAlgoSkipsVerify ==
    [][\A t \in Tasks :
          /\ EntersUnrecognized(t) => ~md'[t]
          /\ pc[t] = "download" /\ pc'[t] = "download" => md'[t] = md[t]
          /\ EndsUnverified(t) =>
                /\ ~HasEvent(log'[t] \o last'.log, Ev("VERIFIED", "", ""))
                /\ ~HasEvent(last'.log, Failed("checksum_mismatch"))
                /\ \/ /\ pc'[t] = "persist"
                      /\ switched'[t] /\ bootSlot' = url[t]
                   \/ /\ pc'[t] = "idle"
                      /\ last'.res \in TransportResults \cup
                                       {"empty", "end_failed", "setboot_failed"}
                      /\ bootSlot' = bootSlot]_otaVars

\* The handler's request named the algorithm "sha256"; a payload whose digest
\* is not the announced checksum was applied, recorded and the device
\* restarted.
C13_Witness ==
    /\ power = "restart"
    /\ pc[MqttTask] = "persist"
    /\ hreq.algo = "sha256" /\ hreq.checksum # Null
    /\ ~strcasecmp_eq(hreq.checksum, sha_hex(digest[MqttTask]))
    /\ bootSlot = hreq.version /\ nvs.version = hreq.version
    /\ ~HasEvent(log[MqttTask], Ev("VERIFIED", "", ""))

(* ------------------------------------------------------------------ *)
(* Properties of the Telegram client                                  *)
(* ------------------------------------------------------------------ *)

\* The update_ids of the calls of a step, in the order of the calls
CalledIds(cs) == [k \in DOMAIN cs |-> cs[k].uid]

\* The update_ids of the updates of a response that lie above a cursor, in
\* the order of the response
IdsAbove(resp, cursor) ==
    LET sel == SelectSeq(resp, LAMBDA u : u.update_id > cursor)
    IN  [k \in DOMAIN sel |-> sel[k].update_id]

\* C14: as long as every response processed listed its ids in ascending
\* order and no stale-cursor recovery has run, the ids handed to the
\* dispatcher since boot are strictly increasing: those of one cycle are
\* ascending and all lie above every id dispatched before, so none is
\* dispatched twice.
C14_DispatchedIncreasing ==
    [][orderly' /\ recovered' = <<>> =>
         /\ \A a, b \in DOMAIN calls' :
               a < b => calls'[a].uid < calls'[b].uid
         /\ \A k \in DOMAIN calls' : calls'[k].uid > hi]_tgVars

\* A batch of two updates has been dispatched in ascending order, with no
\* stale-cursor recovery so far, and the cursor stands at the higher one.
C14_Witness ==
    /\ orderly /\ recovered = <<>>
    /\ Len(calls) = 2
    /\ hi = calls[2].uid
    /\ last_update_id = hi

\* The step just taken was a fallback cycle in which the server returned
\* the response the last stale-cursor recovery dispatched
SameFallbackAgain ==
    /\ tpc = "fallback"
    /\ recovered # <<>>
    /\ \E openOk \in BOOLEAN : FallbackGetUpdates(TRUE, recovered, openOk)

\* C15: when a later fallback request returns the result a stale-cursor
\* recovery has dispatched, none of its messages is dispatched again.
C15_StaleRecoveryIdempotent ==
    [][SameFallbackAgain =>
         \A k \in DOMAIN calls' : calls'[k].uid \notin UidsOf(recovered)]_tgVars

AllIds(resp) == [k \in DOMAIN resp |-> resp[k].update_id]

\* C17: when the fallback request (made after an empty response to a request
\* with offset) returns a non-empty result that does not hold the cursor's
\* id, every update of the result is dispatched, in the order of the result
\* and whatever its id, and the cursor is then the largest id of the result.
C17_StaleCursorRecovery ==
    [][tpc = "fallback" =>
         \A resp \in Responses \ {<<>>} :
            (/\ last_update_id \notin UidsOf(resp)
             /\ \E openOk \in BOOLEAN : FallbackGetUpdates(TRUE, resp, openOk))
            => /\ CalledIds(calls') = AllIds(resp)
               /\ last_update_id' = Max(UidsOf(resp))]_tgVars

\* C18: a successful startup sync leaves the cursor at or above the id of
\* every update that was waiting on the server, the sync step itself calls
\* neither the dispatcher nor a handler, and no later cycle dispatches an
\* update that was waiting at the time of the sync.
C18_SyncSkipsBacklog ==
    [][/\ tpc = "start" =>
            /\ calls' = <<>>
            /\ cycle' = "sync" =>
                  \A id \in UidsOf(waiting') : last_update_id' >= id
       /\ tpc # "start" =>
            \A k \in DOMAIN calls' : calls'[k].uid \notin UidsOf(waiting)]_tgVars

SurfacedAsIs(c) ==
    /\ Update(c.uid).text = Null => c.fn = "msg_handler" /\ c.text = Null
    /\ Update(c.uid).chat = 0 => c.chat_id = 0

\* C20: every update of a polled response that passes the cursor check is
\* dispatched, malformed or not; an update without text reaches the
\* registered handler with a null text and the cursor moves past it, and an
\* update without a resolvable chat is dispatched with chat id 0.
C20_MalformedUpdatesSurfaced ==
    [][/\ \A k \in DOMAIN calls' : SurfacedAsIs(calls'[k])
       /\ tpc = "poll" =>
            /\ \A k \in DOMAIN calls' : last_update_id' >= calls'[k].uid
            /\ \A resp \in Responses \ {<<>>} :
                  (\E openOk \in BOOLEAN : GetUpdates(TRUE, resp, openOk))
                  => CalledIds(calls') = IdsAbove(resp, last_update_id)]_tgVars

(* ------------------------------------------------------------------ *)
(* Properties of the command dispatcher and the sleep configuration    *)
(* ------------------------------------------------------------------ *)

\* The step just taken handed a text message to handle_incoming_message
HandleStep == hpc = "idle" /\ hpc' # "idle"

\* The argument is a decimal number: digits and nothing else
IsNumber(arg) == arg # <<>> /\ \A k \in DOMAIN arg : IsDigit(arg[k])

\* The argument is missing, is no number, or lies outside least..most
InvalidArg(arg, least, most) ==
    \/ ~IsNumber(arg)
    \/ strtoull(arg).val < least
    \/ strtoull(arg).val > most

\* A /setdeepsleepduration or /setdeepsleepdelay with an invalid argument
InvalidSetCommand(text) ==
    \/ /\ text.cmd = "/setdeepsleepduration"
       /\ InvalidArg(text.arg, MinIntervalMs, MaxIntervalMs)
    \/ /\ text.cmd = "/setdeepsleepdelay"
       /\ InvalidArg(text.arg, MinIdleMs, MaxIdleMs)

\* The usage and validation replies of the two commands
UsageReplies ==
    {"Usage: /setdeepsleepduration", "Usage: /setdeepsleepdelay",
     "Invalid value"}

\* C21: a /setdeepsleepduration or /setdeepsleepdelay whose argument is
\* missing, not a number or outside the command's range is answered with a
\* usage or validation reply, leaves interval, idle timeout and enabled flag
\* as they were in memory and in sleep.txt, and does not restart the idle
\* countdown.
C21_InvalidArgumentRejected ==
    [][HandleStep /\ InvalidSetCommand(slast'.text) =>
          /\ Len(slast'.replies) = 1
          /\ slast'.replies[1].msg \in UsageReplies
          /\ UNCHANGED <<interval_ms, idle_timeout_ms, enabled_flag, sleep_file>>
          /\ UNCHANGED <<idle_countdown_task, cpc>>
          /\ slast'.countdown = "kept"]_slVars

ValidSetCommand(text) ==
    /\ text.cmd \in {"/setdeepsleepduration", "/setdeepsleepdelay"}
    /\ ~InvalidSetCommand(text)

\* The command applied v: the field it names and that field's line of
\* sleep.txt are v, the other two fields are as before, the reply carries v
Applied(text, v) ==
    /\ Len(slast'.replies) = 1
    /\ slast'.replies[1].val = v
    /\ UNCHANGED enabled_flag
    /\ IF text.cmd = "/setdeepsleepduration"
       THEN /\ slast'.replies[1].msg = "deepsleep interval set to"
            /\ interval_ms' = v
            /\ LineOf(sleep_file', 1) = FormatLlu(v)
            /\ UNCHANGED idle_timeout_ms
       ELSE /\ slast'.replies[1].msg = "idle timeout set to"
            /\ idle_timeout_ms' = v
            /\ LineOf(sleep_file', 2) = FormatLlu(v)
            /\ UNCHANGED interval_ms

\* The command reported a failed write and left the three fields alone
NotPersisted ==
    /\ Len(slast'.replies) = 1
    /\ slast'.replies[1].msg \in {"Failed to persist deepsleep interval",
                                  "Failed to persist idle timeout"}
    /\ UNCHANGED <<interval_ms, idle_timeout_ms, enabled_flag>>

SetterSucceeded ==
    {"deepsleep interval set to", "idle timeout set to",
     "deepsleep enabled", "deepsleep disabled"}

\* C24: after any successful setter (set_interval_ms, set_idle_timeout_ms,
\* set_enabled), from any prior file and memory state, the three lines of
\* sleep.txt equal the three in-memory fields, so that reading the file again
\* with deepsleep_manager_init yields the same interval, idle timeout and
\* enabled flag.
C24_PolicyRecordRoundTrips ==
    [][HandleStep /\ slast'.replies[1].msg \in SetterSucceeded =>
          /\ LineOf(sleep_file', 1) = FormatLlu(interval_ms')
          /\ LineOf(sleep_file', 2) = FormatLlu(idle_timeout_ms')
          /\ LineOf(sleep_file', 3) = FormatFlag(enabled_flag')
          /\ LoadedInterval(sleep_file') = interval_ms'
          /\ LoadedIdle(sleep_file') = idle_timeout_ms'
          /\ LoadedEnabled(sleep_file') = enabled_flag']_slVars

\* C25: content that follows the known fields of a shared configuration
\* file survives every field update byte for byte: whatever sleep.txt holds
\* after its third line is still there, unchanged, after set_interval_ms,
\* set_idle_timeout_ms and set_enabled.
C25_TrailingContentPreserved ==
    [][HandleStep => LinesAfter(sleep_file', 3) = LinesAfter(sleep_file, 3)]_slVars

(* ------------------------------------------------------------------ *)
(* Properties of the idle countdown and the sleep paths                *)
(* ------------------------------------------------------------------ *)

\* C26: the idle-countdown task is started only after the startup sync: as
\* long as telegram_start has not been through its preflight and initial
\* sync, no countdown task exists, none is waiting or about to sleep, and the
\* device has not gone to sleep.
C26_CountdownAfterSync ==
    tpc = "start" =>
        /\ idle_countdown_task = Null
        /\ cpc = "none"
        /\ lowpower = "awake"

\* telegram_start has done its initial sync and the countdown is running
C26_Witness ==
    /\ tpc = "poll"
    /\ cycle \in {"sync", "failed"}
    /\ idle_countdown_task = IdleTask
    /\ cpc = "delay"
    /\ hpc = "idle"
    /\ sleep_file \in SleepFiles

\* C27: deepsleep_manager_maybe_sleep_after_publish enters the low-power
\* state only when its caller is the current idle-countdown task: the only
\* sleep it starts is the one of the countdown task whose handle is stored,
\* and a call from any other task, or with no countdown task, returns with
\* the device awake.
C27_OnlyCountdownTaskSleeps ==
    [][lowpower = "awake" /\ lowpower' \notin {"awake", "forced"} =>
          /\ lowpower' = "countdown"
          /\ idle_countdown_task = IdleTask
          /\ cpc = "flush"]_slVars

\* Another task called maybe_sleep_after_publish while sleep was enabled and
\* the countdown was running, and the device stayed awake
C27_Witness ==
    /\ slast.caller \in OtherCallers
    /\ lowpower = "awake"
    /\ enabled_flag
    /\ interval_ms # 0
    /\ idle_countdown_task = IdleTask

\* C28: the forced sleep path cancels the countdown task before it sleeps,
\* so the low-power transition is initiated at most once: from the moment
\* deepsleep_manager_force_sleep is past stop_idle_countdown there is no
\* countdown task, none is on its way to esp_deep_sleep_start, and a sleep
\* that follows is the forced one.
C28_ForcedSleepCancelsCountdown ==
    hpc = "flush" =>
        /\ idle_countdown_task = Null
        /\ cpc = "none"
        /\ lowpower \in {"awake", "forced"}

\* A countdown that was running was cancelled by force_sleep, and the device
\* then went to sleep on the forced path
C28_Witness ==
    /\ lowpower = "forced"
    /\ slast.countdown = "stopped"
    /\ cpc = "none"

(* ------------------------------------------------------------------ *)
(* Properties of the cursor check and of cursor persistence            *)
(* ------------------------------------------------------------------ *)

\* C29: in every cycle that is not a stale-cursor cycle, an update is
\* dispatched only if its id is strictly greater than the cursor the cycle
\* started with (the cursor is not written before the batch is through); this
\* holds again in every cycle that follows a stale-cursor cycle.
C29_CursorCheckOutsideStaleMode ==
    [][cycle' # "stale" =>
          \A k \in DOMAIN calls' : calls'[k].uid > last_update_id]_tgVars

\* After a stale-cursor recovery, a later fallback result that held the
\* cursor's id was processed and nothing of it was dispatched
C29_Witness ==
    /\ recovered # <<>>
    /\ cycle = "found"
    /\ calls = <<>>

\* The id persist_last_update_id wrote: the last line of the token file
WrittenCursor(file) == ScanLld(file[Len(file)])

\* C30: the token file is written with a cursor only by a step that has
\* handed every update of its batch to the dispatcher, and the value written
\* is the largest id dispatched in that batch, never an id that was skipped
\* or is still to be dispatched.
C30_PersistAfterDispatch ==
    [][tele_file' # tele_file =>
          /\ calls' # <<>>
          /\ WrittenCursor(tele_file') = Max(DispatchedIds(calls'))
          /\ WrittenCursor(tele_file') = last_update_id']_tgVars

\* A batch of two updates was dispatched in a direct cycle and the third
\* line of the token file holds the id of the second
C30_Witness ==
    /\ cycle = "direct"
    /\ Len(calls) = 2
    /\ calls[1].uid < calls[2].uid
    /\ Len(tele_file) = 3
    /\ WrittenCursor(tele_file) = calls[2].uid

\* C31: the persisted cursor round-trips across a restart: for every token
\* file that starts with a token line, with or without the second line, once
\* persist_last_update_id(v) has written the file, telegram_init_from_file
\* reads the same bot token from it and loads v as the cursor.
C31_PersistedCursorRoundTrips ==
    [][tele_file' # tele_file =>
          /\ tele_file'[1] = tele_file[1]
          /\ telegram_init_from_file(tele_file') = last_update_id']_tgVars

\* C32: a poll that fails at the transport level, be it the request with
\* offset or the fallback request, is never fatal and changes nothing: no
\* update is dispatched, the cursor keeps its value in memory and in the
\* token file, and telegram_task is back at the head of its loop, where the
\* next poll is issued after the delay.
C32_FailedPollChangesNothing ==
    [][cycle' = "failed" /\ tpc \in {"poll", "fallback"} =>
          /\ calls' = <<>>
          /\ UNCHANGED <<last_update_id, tele_file>>
          /\ tpc' = "poll"]_tgVars

\* A poll failed after updates had been dispatched and persisted: cursor and
\* file stand where the last successful cycle left them and the task polls on
C32_Witness ==
    /\ cycle = "failed"
    /\ tpc = "poll"
    /\ hi > 0
    /\ last_update_id = hi
    /\ PersistedCursor(tele_file) = hi

\* The replies that report a setter whose write failed
SetterFailed ==
    {"Failed to persist deepsleep interval", "Failed to persist idle timeout",
     "Failed to enable deepsleep", "Failed to disable deepsleep"}

\* The in-memory field the command names holds the value the command asked for
FieldTakesRequested(text) ==
    CASE text.cmd = "/setdeepsleepduration" ->
            interval_ms' = strtoull(text.arg).val
      [] text.cmd = "/setdeepsleepdelay" ->
            idle_timeout_ms' = strtoull(text.arg).val
      [] text.cmd = "/toggledeepsleep" ->
            enabled_flag' = StartsWith(text.arg, <<"o", "n">>)

\* C34: when persisting a policy field fails, the failure is reported to the
\* caller and the in-memory field still takes the requested value, for each
\* of set_interval_ms, set_idle_timeout_ms and set_enabled.
C34_FailedPersistKeepsRequestedValue ==
    [][HandleStep /\ slast'.replies[1].msg \in SetterFailed =>
          FieldTakesRequested(slast'.text)]_slVars

\* C37: the device enters deep sleep only when, at the moment of the
\* transition, the enabled flag is set and the sleep interval is greater than
\* zero, on the idle-countdown path and on the forced path alike.
C37_SleepsOnlyWhenEnabled ==
    [][lowpower = "awake" /\ lowpower' # "awake" =>
          enabled_flag /\ interval_ms > 0]_slVars

(* ------------------------------------------------------------------ *)
(* Properties of the retry task and the pending slot                  *)
(* ------------------------------------------------------------------ *)

\* ota_retry_task goes from its preflight into the download
RetryEntersDownload == pc[RetryTask] = "preflight" /\ pc'[RetryTask] = "download"

\* C35: the retry task downloads exactly the request it has just preflighted:
\* under every interleaving with a push that overwrites the pending slot, the
\* title and the version handed to the download are those its preflight
\* asked the server about.
C35_DownloadsWhatItPreflighted ==
    [][RetryEntersDownload =>
          /\ ArgTitle(RetryTask) = preflight_url.title
          /\ url'[RetryTask] = preflight_url.version]_otaVars

\* ota_retry_task is inside the download of one request while the pending
\* slot holds another one, stored by a push since the download was entered
NewerPending ==
    /\ pc[RetryTask] \in InFlightPcs
    /\ s_pending.present
    /\ s_pending.version # url[RetryTask]

\* A wake-up of ota_retry_task is on its way
RetryScheduled == s_retry_timer.active \/ s_ota_task.notified

\* C36: a pending request is not lost to the retry task: a request stored by
\* a push while the retry task is handling an older one is still pending, with
\* a retry scheduled, after every step that leaves the device running (a later
\* push may put another request in its place).
C36_NewerPendingKept ==
    [][NewerPending /\ power' = "on" =>
          s_pending'.present /\ RetryScheduled']_otaVars

\* A step of the update subsystem by the action A
OtaStep(A) == A /\ PreflightUrl /\ UNCHANGED <<tgVars, slVars, cdVars>>

\* What the scheduler and the network grant the retry machinery: the timer
\* service runs an armed timer's callback, a notified ota_retry_task gets the
\* CPU, a preflight or download that was entered comes to an outcome, a
\* restarted device comes up and connects; and the endpoint becomes
\* reachable: a preflight that is tried again and again does not fail for
\* ever.  Pushes are under no obligation.
RetryFairness ==
    /\ WF_vars(OtaStep(\E createOk \in AllocOutcomes : TimerFire(createOk)))
    /\ WF_vars(OtaStep(RetryWake))
    /\ SF_vars(OtaStep(\E createOk \in AllocOutcomes : RetryPreflight("ok", createOk)))
    /\ WF_vars(OtaStep(\E o \in PreflightOutcomes, createOk \in AllocOutcomes :
                          HandlerPreflight(o, createOk)))
    /\ \A t \in Tasks :
          /\ WF_vars(OtaStep(\E o \in DownloadOutcomes :
                                \E n \in ChunksFor(o), d \in DigestsFor(o) :
                                   Download(t, o, n, d)))
          /\ WF_vars(OtaStep(\E nvsOpen \in BOOLEAN : Commit(t, nvsOpen)))
    /\ WF_vars(OtaStep(\E ok \in BOOLEAN, d \in DigestVals : DirectOta(ok, d)))
    /\ WF_vars(OtaStep(DirectCommit))
    /\ WF_vars(OtaStep(Boot))
    /\ WF_vars(OtaStep(MqttConnected))

\* The update subsystem under the scheduling above
OtaLiveSpec == OtaBoot /\ [][OtaNext]_vars /\ RetryFairness

\* The versions a pending request can carry
PendingVersions == {"1", "2"}

\* ota_retry_task has passed the request of version v to the download: it is
\* in the download, or the download call has just returned from its set-up
RetryDownloaded(v) ==
    \/ pc[RetryTask] \in InFlightPcs /\ url[RetryTask] = v
    \/ /\ last.task = RetryTask /\ last.version = v
       /\ last.res \in {"init_failed", "no_partition"}

\* C33: a pending request is retried until it goes through: under the
\* scheduling above, a request of version v in the pending slot is eventually
\* passed to the download by the retry task, unless a push puts another
\* request in its place or the device restarts first.
C33_PendingEventuallyDownloaded ==
    \A v \in PendingVersions :
        (power = "on" /\ s_pending.present /\ s_pending.version = v)
            ~> \/ RetryDownloaded(v)
               \/ power # "on"
               \/ s_pending.present /\ s_pending.version # v

(* ------------------------------------------------------------------ *)
(* The idle countdown and its callers, instruction by instruction     *)
(* ------------------------------------------------------------------ *)

\* The countdown tasks that exist: created and not yet deleted
LiveTasks == {h \in Handles : tcb[h] \notin {"free", "deleted"}}

\* The control block xTaskCreate takes next
NextFree ==
    TaskHandles[CHOOSE i \in 1..Len(TaskHandles) :
                   /\ tcb[TaskHandles[i]] = "free"
                   /\ \A k \in 1..(i - 1) : tcb[TaskHandles[k]] # "free"]

CanCreate == \E h \in Handles : tcb[h] = "free"

\* telegram_task is in no call of the deepsleep manager and the chip runs
CallerReady == lowpower = "awake" /\ tgtask.at = "idle"

\* telegram_task enters start_idle_countdown, stop_idle_countdown or
\* deepsleep_manager_force_sleep (which begins with stop_idle_countdown)
Enters(op) == [op |-> op, at |-> "test", reg |-> Null]

\* Where the caller goes on after the cancelling part of its call
AfterCancel(op) ==
    IF op = "start" THEN [op |-> op, at |-> "create", reg |-> Null]
    ELSE IF op = "force" THEN [op |-> op, at |-> "finish", reg |-> Null]
    ELSE CallerIdle

\* The statics and the file take the values of S; the handle is left alone
Stored(S) ==
    /\ interval_ms' = S.interval
    /\ idle_timeout_ms' = S.idle
    /\ enabled_flag' = S.enabled
    /\ sleep_file' = S.file

\* deepsleep_manager_set_interval_ms: no countdown is touched
SetInterval(ms, openOk) ==
    /\ CallerReady
    /\ Stored(deepsleep_manager_set_interval_ms(Cur, ms, openOk).st)
    /\ vdel' = NoDel
    /\ UNCHANGED <<idle_countdown_task, cpc, hpc, lowpower, slast, tcb, tgtask>>

\* deepsleep_manager_set_idle_timeout_ms up to its call of
\* start_idle_countdown (made when deep sleep is enabled)
SetIdleTimeout(ms, openOk, openOk2) ==
    /\ CallerReady
    /\ CanCreate
    /\ LET S1 == [Cur EXCEPT !.file = SpliceSecond(Cur.file, FormatLlu(ms)),
                             !.idle = ms]
           S2 == persist_sleep_config(S1, openOk2).st
       IN  IF ~openOk THEN UNCHANGED <<interval_ms, idle_timeout_ms, enabled_flag,
                                       sleep_file, tgtask>>
           ELSE /\ Stored(S2)
                /\ tgtask' = IF S2.enabled THEN Enters("start") ELSE tgtask
    /\ vdel' = NoDel
    /\ UNCHANGED <<idle_countdown_task, cpc, hpc, lowpower, slast, tcb>>

\* deepsleep_manager_set_enabled up to its call of start_idle_countdown or
\* stop_idle_countdown; neither is called when the write failed
SetEnabled(enabled, openOk) ==
    /\ CallerReady
    /\ CanCreate
    /\ LET P == persist_sleep_config([Cur EXCEPT !.enabled = enabled], openOk)
       IN  /\ Stored(P.st)
           /\ tgtask' = IF ~P.ret THEN tgtask
                        ELSE IF enabled THEN Enters("start") ELSE Enters("stop")
    /\ vdel' = NoDel
    /\ UNCHANGED <<idle_countdown_task, cpc, hpc, lowpower, slast, tcb>>

\* deepsleep_manager_force_sleep is entered
ForceEnter ==
    /\ CallerReady
    /\ tgtask' = Enters("force")
    /\ vdel' = NoDel
    /\ UNCHANGED <<interval_ms, idle_timeout_ms, enabled_flag, sleep_file,
                   idle_countdown_task, cpc, hpc, lowpower, slast, tcb>>

\* if (idle_countdown_task): the handle is read
CallerTest ==
    /\ lowpower = "awake"
    /\ tgtask.at = "test"
    /\ tgtask' = IF idle_countdown_task # Null
                 THEN [tgtask EXCEPT !.at = "delete", !.reg = idle_countdown_task]
                 ELSE AfterCancel(tgtask.op)
    /\ vdel' = NoDel
    /\ UNCHANGED <<interval_ms, idle_timeout_ms, enabled_flag, sleep_file,
                   idle_countdown_task, cpc, hpc, lowpower, slast, tcb>>

\* vTaskDelete(idle_countdown_task).  The static is not volatile and nothing
\* orders the two reads: the argument is the value read for the test (kept in
\* a register) or the value the static holds now (read again); reread says
\* which.  NULL deletes the calling task.  The handle of a task
\* that has deleted itself points at a control block that is no longer a
\* task's: the call then does nothing visible or takes the chip down (crash).
CallerDelete(reread, crash) ==
    /\ lowpower = "awake"
    /\ tgtask.at = "delete"
    /\ LET arg == IF reread THEN idle_countdown_task ELSE tgtask.reg
       IN  /\ vdel' = [arg |-> arg,
                       target |-> IF arg = Null THEN "self" ELSE tcb[arg]]
           /\ IF arg = Null
              THEN /\ tgtask' = [tgtask EXCEPT !.at = "deleted"]
                   /\ UNCHANGED <<tcb, lowpower>>
              ELSE IF arg \in LiveTasks
              THEN /\ tcb' = [tcb EXCEPT ![arg] = "deleted"]
                   /\ tgtask' = [tgtask EXCEPT !.at = "clear"]
                   /\ UNCHANGED lowpower
              ELSE /\ lowpower' = IF crash THEN "panic" ELSE lowpower
                   /\ tgtask' = [tgtask EXCEPT !.at = "clear"]
                   /\ UNCHANGED tcb
    /\ UNCHANGED <<interval_ms, idle_timeout_ms, enabled_flag, sleep_file,
                   idle_countdown_task, cpc, hpc, slast>>

\* idle_countdown_task = NULL after the vTaskDelete
CallerClear ==
    /\ lowpower = "awake"
    /\ tgtask.at = "clear"
    /\ idle_countdown_task' = Null
    /\ tgtask' = AfterCancel(tgtask.op)
    /\ vdel' = NoDel
    /\ UNCHANGED <<interval_ms, idle_timeout_ms, enabled_flag, sleep_file, cpc,
                   hpc, lowpower, slast, tcb>>

\* start_idle_countdown after the cancel: the two early returns, then
\* xTaskCreate, which stores the new handle (NULL is stored when it failed)
CallerCreate(createOk) ==
    /\ lowpower = "awake"
    /\ tgtask.at = "create"
    /\ IF ~enabled_flag \/ idle_timeout_ms = 0
       THEN UNCHANGED <<idle_countdown_task, tcb>>
       ELSE IF createOk
       THEN /\ tcb' = [tcb EXCEPT ![NextFree] = "delay"]
            /\ idle_countdown_task' = NextFree
       ELSE /\ idle_countdown_task' = Null
            /\ UNCHANGED tcb
    /\ tgtask' = CallerIdle
    /\ vdel' = NoDel
    /\ UNCHANGED <<interval_ms, idle_timeout_ms, enabled_flag, sleep_file, cpc,
                   hpc, lowpower, slast>>

\* deepsleep_manager_force_sleep after stop_idle_countdown: it returns false,
\* or goes through its 50 ms delay to esp_deep_sleep_start
CallerFinish ==
    /\ lowpower = "awake"
    /\ tgtask.at = "finish"
    /\ IF interval_ms = 0 \/ ~enabled_flag
       THEN /\ tgtask' = CallerIdle
            /\ UNCHANGED lowpower
       ELSE /\ lowpower' = "forced"
            /\ UNCHANGED tgtask
    /\ vdel' = NoDel
    /\ UNCHANGED <<interval_ms, idle_timeout_ms, enabled_flag, sleep_file,
                   idle_countdown_task, cpc, hpc, slast, tcb>>

\* A step of the countdown task h from one place of idle_countdown_task_fn
\* to the next
TaskGoes(h, from, to) ==
    /\ lowpower = "awake"
    /\ tcb[h] = from
    /\ tcb' = [tcb EXCEPT ![h] = to]
    /\ vdel' = NoDel

\* The vTaskDelay of the idle timeout ends: if (enabled_flag)
TaskExpires(h) ==
    /\ TaskGoes(h, "delay", IF enabled_flag THEN "maybe" ELSE "clear")
    /\ UNCHANGED <<interval_ms, idle_timeout_ms, enabled_flag, sleep_file,
                   idle_countdown_task, cpc, hpc, lowpower, slast, tgtask>>

\* deepsleep_manager_maybe_sleep_after_publish called by the countdown task:
\* it returns, or goes on to its 50 ms delay
TaskMaybeSleeps(h) ==
    /\ TaskGoes(h, "maybe",
                IF interval_ms # 0 /\ enabled_flag /\ idle_countdown_task = h
                THEN "flush" ELSE "clear")
    /\ UNCHANGED <<interval_ms, idle_timeout_ms, enabled_flag, sleep_file,
                   idle_countdown_task, cpc, hpc, lowpower, slast, tgtask>>

\* esp_deep_sleep_start after the 50 ms delay
TaskSleeps(h) ==
    /\ lowpower = "awake"
    /\ tcb[h] = "flush"
    /\ lowpower' = "countdown"
    /\ vdel' = NoDel
    /\ UNCHANGED <<interval_ms, idle_timeout_ms, enabled_flag, sleep_file,
                   idle_countdown_task, cpc, hpc, slast, tcb, tgtask>>

\* idle_countdown_task = NULL, written by the countdown task itself
TaskClears(h) ==
    /\ TaskGoes(h, "clear", "exit")
    /\ idle_countdown_task' = Null
    /\ UNCHANGED <<interval_ms, idle_timeout_ms, enabled_flag, sleep_file, cpc,
                   hpc, lowpower, slast, tgtask>>

\* vTaskDelete(NULL) by the countdown task
TaskExits(h) ==
    /\ TaskGoes(h, "exit", "deleted")
    /\ UNCHANGED <<interval_ms, idle_timeout_ms, enabled_flag, sleep_file,
                   idle_countdown_task, cpc, hpc, lowpower, slast, tgtask>>

\* One step of telegram_task inside the deepsleep manager or of a countdown
\* task
CountdownNext ==
    \/ /\ \E openOk \in BOOLEAN : SetInterval(5000, openOk)
       /\ UNCHANGED <<otaVars, tgVars>>
    \/ /\ \E openOk \in BOOLEAN, openOk2 \in BOOLEAN : SetIdleTimeout(200, openOk, openOk2)
       /\ UNCHANGED <<otaVars, tgVars>>
    \/ /\ \E enabled \in BOOLEAN, openOk \in BOOLEAN : SetEnabled(enabled, openOk)
       /\ UNCHANGED <<otaVars, tgVars>>
    \/ /\ ForceEnter
       /\ UNCHANGED <<otaVars, tgVars>>
    \/ /\ CallerTest
       /\ UNCHANGED <<otaVars, tgVars>>
    \/ /\ \E reread \in BOOLEAN, crash \in BOOLEAN : CallerDelete(reread, crash)
       /\ UNCHANGED <<otaVars, tgVars>>
    \/ /\ CallerClear
       /\ UNCHANGED <<otaVars, tgVars>>
    \/ /\ \E createOk \in BOOLEAN : CallerCreate(createOk)
       /\ UNCHANGED <<otaVars, tgVars>>
    \/ /\ CallerFinish
       /\ UNCHANGED <<otaVars, tgVars>>
    \/ /\ \E h \in Handles : TaskExpires(h)
       /\ UNCHANGED <<otaVars, tgVars>>
    \/ /\ \E h \in Handles : TaskMaybeSleeps(h)
       /\ UNCHANGED <<otaVars, tgVars>>
    \/ /\ \E h \in Handles : TaskSleeps(h)
       /\ UNCHANGED <<otaVars, tgVars>>
    \/ /\ \E h \in Handles : TaskClears(h)
       /\ UNCHANGED <<otaVars, tgVars>>
    \/ /\ \E h \in Handles : TaskExits(h)
       /\ UNCHANGED <<otaVars, tgVars>>

\* telegram_task is running (the initial sync is done) on a device with any
\* sleep.txt; the countdown telegram_start created when deep sleep is
\* enabled is in its delay
CountdownBoot ==
    /\ OtaInit
    /\ TgInit /\ tele_file = <<"token", "admin">>
    /\ \E f \in SleepFiles :
          /\ sleep_file = f
          /\ interval_ms = LoadedInterval(f)
          /\ idle_timeout_ms = LoadedIdle(f)
          /\ enabled_flag = LoadedEnabled(f)
          /\ idle_countdown_task =
                (IF LoadedEnabled(f) /\ LoadedIdle(f) # 0 THEN IdleTask ELSE Null)
          /\ tcb = [h \in Handles |->
                      IF h = IdleTask /\ LoadedEnabled(f) /\ LoadedIdle(f) # 0
                      THEN "delay" ELSE "free"]
    /\ cpc = "none"
    /\ hpc = "idle"
    /\ lowpower = "awake"
    /\ slast = NoSObs
    /\ tgtask = CallerIdle
    /\ vdel = NoDel

\* The countdown tasks and the calls that cancel and restart them
CountdownSpec == CountdownBoot /\ [][CountdownNext]_vars

\* C38: at most one idle-countdown task is alive at any time.
C38_AtMostOneCountdown == Cardinality(LiveTasks) <= 1

\* C39: cancelling or restarting only ever deletes a live countdown task:
\* start_idle_countdown and stop_idle_countdown pass vTaskDelete neither a
\* null handle nor the handle of a task that is already deleted.
C39_OnlyLiveTaskDeleted == vdel.target \notin {"self", "deleted"}

\* The countdown tasks that have more to do than to delete themselves
TasksAtWork == {h \in LiveTasks : tcb[h] # "exit"}

\* Of the countdown tasks alive together, all but one have cleared the
\* handle and are about to delete themselves (holds of CountdownSpec).
AtMostOneCountdownAtWork == Cardinality(TasksAtWork) <= 1

====
